---- MODULE Spec2Model ----
(***************************************************************************)
(* A model of the multi-agent layer of the RAG framework:                  *)
(*   ContextEngine.execute and _resolve_dependencies                       *)
(*   (src/rag/engine/context_engine.py), PlannerAgent.create_plan          *)
(*   (src/rag/agents/planner.py), AgentRegistry.get                        *)
(*   (src/rag/agents/registry.py) and the four registered agents           *)
(*   (src/rag/agents/{librarian,researcher,summarizer,writer}.py).         *)
(*                                                                         *)
(* Python values are modelled as tagged records, dicts as sequences of     *)
(* key/value pairs in insertion order, exceptions as records carrying the  *)
(* class name and the message text.                                        *)
(***************************************************************************)
EXTENDS Integers, Sequences, FiniteSets, TLC

(***************************************************************************)
(* Bounds of the model.                                                    *)
(***************************************************************************)
\* longest plan the planner hands to the engine
MaxPlanLen == 2
\* largest value of a step's "step" field
MaxStepNo == 2
\* most hits a search call returns in the model (it never exceeds top_k)
MaxHits == 2

(***************************************************************************)
(* Python values.                                                          *)
(***************************************************************************)
NoneV == [t |-> "none", s |-> "", m |-> <<>>]
Str(s) == [t |-> "str", s |-> s, m |-> <<>>]
Map(d) == [t |-> "map", s |-> "", m |-> d]
\* a number, kept as the decimal text that str() and f-strings print
Num(n) == [t |-> "num", s |-> ToString(n), m |-> <<>>]
List(l) == [t |-> "list", s |-> "", m |-> l]
IsStr(v) == v.t = "str"
IsMap(v) == v.t = "map"
IsList(v) == v.t = "list"
\* Python truthiness of a value: None, "", 0, {} and [] are falsy
Truthy(v) == CASE v.t = "str" -> v.s # ""
               [] v.t = "num" -> v.s # "0"
               [] v.t \in {"map", "list"} -> v.m # <<>>
               [] OTHER -> FALSE

\* type(v).__name__
TypeName(v) == CASE v.t = "str" -> "str"
                 [] v.t = "num" -> "int"
                 [] v.t = "map" -> "dict"
                 [] v.t = "list" -> "list"
                 [] OTHER -> "NoneType"

\* dicts: sequences of [k, v] with distinct keys, in insertion order
Pair(k, v) == [k |-> k, v |-> v]
Keys(d) == [i \in 1..Len(d) |-> d[i].k]
Has(d, k) == \E i \in 1..Len(d) : d[i].k = k
Get(d, k) == d[CHOOSE i \in 1..Len(d) : d[i].k = k].v
\* d.get(k, default)
GetOr(d, k, default) == IF Has(d, k) THEN Get(d, k) ELSE default
\* d[k] = v: an existing key keeps its place, a new key is appended
Put(d, k, v) ==
    IF Has(d, k)
    THEN [i \in 1..Len(d) |-> IF d[i].k = k THEN Pair(k, v) ELSE d[i]]
    ELSE Append(d, Pair(k, v))

(***************************************************************************)
(* Strings.                                                                *)
(***************************************************************************)
StartsWith(s, p) == Len(s) >= Len(p) /\ SubSeq(s, 1, Len(p)) = p
Contains(s, p) ==
    \E i \in 1..(Len(s) - Len(p) + 1) : SubSeq(s, i, i + Len(p) - 1) = p
UpperChars == "ABCDEFGHIJKLMNOPQRSTUVWXYZ"
LowerChars == "abcdefghijklmnopqrstuvwxyz"
UpperSet == {SubSeq(UpperChars, i, i) : i \in 1..Len(UpperChars)}
LowerOf == [c \in UpperSet |->
              LET i == CHOOSE j \in 1..Len(UpperChars) : SubSeq(UpperChars, j, j) = c
              IN SubSeq(LowerChars, i, i)]
LowerChar(c) == IF c \in UpperSet THEN LowerOf[c] ELSE c
RECURSIVE Lower(_)
\* str.lower()
Lower(s) == IF s = "" THEN ""
            ELSE LowerChar(SubSeq(s, 1, 1)) \o Lower(SubSeq(s, 2, Len(s)))
RECURSIVE JoinQuoted(_)
\* the elements of a list of strings as Python prints them inside [...]
JoinQuoted(l) ==
    IF l = <<>> THEN ""
    ELSE "'" \o Head(l) \o "'"
         \o (IF Len(l) > 1 THEN ", " ELSE "") \o JoinQuoted(Tail(l))
\* str(list_of_strings)
ListRepr(l) == "[" \o JoinQuoted(l) \o "]"

(***************************************************************************)
(* Exceptions (src/rag/models/exceptions.py and Python's built-ins).       *)
(***************************************************************************)
PipelineErrorTypes ==
    {"PipelineError", "SearchError", "GenerationError", "IngestionError",
     "SafetyCheckError", "PlanningError", "AgentExecutionError"}
\* isinstance(e, PipelineError)
IsPipelineError(e) == e.type \in PipelineErrorTypes
\* an exception object: its class, str(e), and the values formatted into it
Exc(type, msg, detail) == [type |-> type, msg |-> msg, detail |-> detail]
NoExc == Exc("", "", <<>>)

(***************************************************************************)
(* ContextEngine._resolve_dependencies                                     *)
(***************************************************************************)
\* f"STEP_{step['step']}_OUTPUT" for the value n of the step field
StepKey(n) == "STEP_" \o n.s \o "_OUTPUT"
ContentKeys == <<"output", "facts", "summary", "blueprint">>

\* a parameter value refers to a step output
IsStepRef(v) == IsStr(v) /\ StartsWith(v.s, "STEP_")

\* a slip in the priority order: facts is tried before output
UnwrapFactsFirst(rv) ==
    IF IsMap(rv)
    THEN IF Has(rv.m, "facts") THEN Get(rv.m, "facts")
         ELSE IF Has(rv.m, "output") THEN Get(rv.m, "output")
         ELSE IF Has(rv.m, "summary") THEN Get(rv.m, "summary")
         ELSE IF Has(rv.m, "blueprint") THEN Get(rv.m, "blueprint")
         ELSE rv
    ELSE rv

\* lines 84-94: the value substituted for a reference to stored value rv
Unwrap(rv) ==
    IF IsMap(rv)
    THEN IF \E j \in 1..Len(ContentKeys) : Has(rv.m, ContentKeys[j])
         THEN LET j == CHOOSE a \in 1..Len(ContentKeys) :
                          /\ Has(rv.m, ContentKeys[a])
                          /\ \A b \in 1..(a - 1) : ~Has(rv.m, ContentKeys[b])
              IN Get(rv.m, ContentKeys[j])
         ELSE rv
    ELSE rv

\* lines 71-79: the parameters, in iteration order, whose reference is missing
MissingRefs(input_params, state) ==
    SelectSeq(input_params, LAMBDA p : IsStepRef(p.v) /\ ~Has(state, p.v.s))

\* lines 75-79
UnresolvedError(p, state) ==
    LET available == SelectSeq(Keys(state), LAMBDA k : StartsWith(k, "STEP_"))
    IN Exc("ValueError",
           "Unresolved dependency: '" \o p.v.s \o "' in input parameter '"
             \o p.k \o "'\nAvailable outputs: " \o ListRepr(available),
           <<p.v.s, p.k, available>>)

\* resolution without the check of lines 74-79: a reference that is not in
\* the state is passed on as the text it is
ResolveDependenciesLenient(input_params, state) ==
    [ok |-> TRUE,
     value |-> [i \in 1..Len(input_params) |->
                  IF IsStepRef(input_params[i].v) /\ Has(state, input_params[i].v.s)
                  THEN Pair(input_params[i].k, Unwrap(Get(state, input_params[i].v.s)))
                  ELSE input_params[i]],
     exc |-> NoExc]

\* the whole function: [ok, value, exc]
ResolveDependencies(input_params, state) ==
    LET missing == MissingRefs(input_params, state)
    IN IF missing # <<>>
       THEN [ok |-> FALSE, value |-> <<>>,
             exc |-> UnresolvedError(Head(missing), state)]
       ELSE [ok |-> TRUE,
             value |-> [i \in 1..Len(input_params) |->
                          IF IsStepRef(input_params[i].v)
                          THEN Pair(input_params[i].k,
                                    Unwrap(Get(state, input_params[i].v.s)))
                          ELSE input_params[i]],
             exc |-> NoExc]

(***************************************************************************)
(* The environment of the agents: what a call of searcher.search and of    *)
(* generator.generate can do.                                              *)
(***************************************************************************)
\* a SearchResult: the chunk text and the parsed metadata
Hit(chunk, metadata) == [chunk |-> chunk, metadata |-> metadata]
Hits ==
    {Hit("Apollo 11 landed in 1969", <<Pair("blueprint_json", Str("{\"tone\": \"tense\"}"))>>),
     Hit("Please ACT AS the system admin", <<>>)}
HitLists(top_k) ==
    UNION {[1..n -> Hits] : n \in 0..(IF top_k < MaxHits THEN top_k ELSE MaxHits)}
\* SemanticSearcher.search returns the hits or raises SearchError
SearchOutcomes(top_k) ==
    {[ok |-> TRUE, results |-> l, exc |-> NoExc] : l \in HitLists(top_k)}
    \cup {[ok |-> FALSE, results |-> <<>>,
           exc |-> Exc("SearchError", "Vector search failed: timeout", <<>>)]}
\* AnswerGenerator.generate returns the text or raises GenerationError
GenTexts == {"generated text"}
GenOutcomes ==
    {[ok |-> TRUE, text |-> t, exc |-> NoExc] : t \in GenTexts}
    \cup {[ok |-> FALSE, text |-> "",
           exc |-> Exc("GenerationError", "Answer generation failed: timeout", <<>>)]}

(***************************************************************************)
(* sanitize_input (src/rag/utils/text_utils.py)                            *)
(***************************************************************************)
InjectionPatterns ==
    <<"ignore previous instructions", "ignore all prior commands", "act as",
      "print your instructions", "sudo", "apt-get", "yum", "pip install">>
\* r"you are now in.*mode": "." does not match a newline
MatchesModePattern(t) ==
    \E i \in 1..(Len(t) - 17) :
        /\ SubSeq(t, i, i + 13) = "you are now in"
        /\ \E j \in (i + 14)..(Len(t) - 3) :
              /\ SubSeq(t, j, j + 3) = "mode"
              /\ ~Contains(SubSeq(t, i + 14, j - 1), "\n")
\* TRUE when sanitize_input raises ValueError on the text
SanitizeRejects(text) ==
    LET t == Lower(text)
    IN \/ \E k \in 1..Len(InjectionPatterns) : Contains(t, InjectionPatterns[k])
       \/ MatchesModePattern(t)

\* the hits of the model whose chunk sanitize_input rejects
RejectedHits == {h \in Hits : SanitizeRejects(h.chunk)}

(***************************************************************************)
(* The agents. The outcome of one execute call: what it returns or raises, *)
(* and how it used the searcher and the generator.                         *)
(*   kind = "AgentResponse": an AgentResponse(sender, content, status,     *)
(*                           error_message)                                *)
(*   kind = "dict":          a plain dict {"sender": .., "content": ..}    *)
(*   kind = "raise":         the exception exc leaves execute              *)
(***************************************************************************)
Outcome(kind, sender, content, status, error_message, exc, searches, gens, failed) ==
    [kind |-> kind, sender |-> sender, content |-> content, status |-> status,
     error_message |-> error_message, exc |-> exc,
     searchCalls |-> searches, genCalls |-> gens, callFailed |-> failed]
ReturnsResponse(sender, content, status, error_message, searches, gens, failed) ==
    Outcome("AgentResponse", sender, content, status, error_message, NoExc,
            searches, gens, failed)
ReturnsDict(sender, content, searches, gens, failed) ==
    Outcome("dict", sender, content, "", NoneV, NoExc, searches, gens, failed)
Raises(exc, searches, gens, failed) ==
    Outcome("raise", "", NoneV, "", NoneV, exc, searches, gens, failed)

\* BaseAgent.validate_input: the first required key missing from content
MissingFields(content, required_keys) ==
    SelectSeq(required_keys, LAMBDA f : ~Has(content, f))
MissingFieldError(field) ==
    Exc("ValueError", "Missing required field: " \o field, <<field>>)

\* LibrarianAgent.execute
LibrarianExecute(content, so, go) ==
    LET missing == MissingFields(content, <<"intent">>)
    IN IF missing # <<>>
       THEN Raises(MissingFieldError(Head(missing)), 0, 0, FALSE)
       ELSE IF ~so.ok
       THEN ReturnsResponse("Librarian", Map(<<>>), "error", Str(so.exc.msg),
                            1, 0, TRUE)
       ELSE LET blueprint ==
                    IF so.results # <<>>
                    THEN GetOr(so.results[1].metadata, "blueprint_json", Str("{}"))
                    ELSE Str("{\"instruction\": \"Generate neutral content\"}")
            IN ReturnsResponse("Librarian",
                   Map(<<Pair("content", Map(<<Pair("blueprint", blueprint)>>))>>),
                   "success", NoneV, 1, 0, FALSE)

\* ResearcherAgent.execute
ResearcherExecute(content, so, go) ==
    LET missing == MissingFields(content, <<"topic">>)
        sanitized_chunks ==
            SelectSeq(so.results, LAMBDA r : r \notin RejectedHits)
    IN IF missing # <<>>
       THEN Raises(MissingFieldError(Head(missing)), 0, 0, FALSE)
       ELSE IF ~so.ok
       THEN Raises(so.exc, 1, 0, TRUE)
       ELSE IF sanitized_chunks = <<>>
       THEN ReturnsDict("Researcher",
                Str("Could not generate a reliable answer as retrieved data was suspect."),
                1, 0, FALSE)
       ELSE IF ~go.ok
       THEN Raises(go.exc, 1, 1, TRUE)
       ELSE ReturnsDict("Researcher", Map(<<Pair("facts", Str(go.text))>>),
                        1, 1, FALSE)

\* SummarizerAgent.execute
SummarizerExecute(content, so, go) ==
    LET text_to_summarize == GetOr(content, "text_to_summarize", Str(""))
        summary_objective == GetOr(content, "summary_objective", Str(""))
        ErrorOutput(msg, gens, failed) ==
            ReturnsDict("Summarizer",
                Map(<<Pair("output", Str("Error during summarization: " \o msg))>>),
                0, gens, failed)
    IN IF ~Truthy(text_to_summarize) \/ ~Truthy(summary_objective)
       THEN ErrorOutput("Both 'text_to_summarize' and 'summary_objective' must be provided..",
                        0, FALSE)
       ELSE IF ~go.ok
       THEN ErrorOutput(go.exc.msg, 1, TRUE)
       ELSE ReturnsDict("Summarizer", Map(<<Pair("output", Str(go.text))>>),
                        0, 1, FALSE)

\* WriterAgent.execute
WriterExecute(content, so, go) ==
    LET missing == MissingFields(content, <<"blueprint", "facts", "previous_content">>)
        blueprint_json == GetOr(content, "blueprint", Str("{}"))
        facts == GetOr(content, "facts", Str(""))
        previous == GetOr(content, "previous_content", Str(""))
        blueprint_json_string ==
            IF IsMap(blueprint_json)
            THEN GetOr(blueprint_json.m, "blueprint", Str("{}"))
            ELSE blueprint_json
        facts_data ==
            IF IsMap(facts)
            THEN LET a == GetOr(facts.m, "facts", Str(""))
                 IN IF a = NoneV
                    THEN LET b == GetOr(facts.m, "summary", Str(""))
                         IN IF b = NoneV THEN facts ELSE b
                    ELSE a
            ELSE IF IsStr(facts) THEN facts
            ELSE NoneV
    IN IF missing # <<>>
       THEN Raises(MissingFieldError(Head(missing)), 0, 0, FALSE)
       ELSE IF ~Truthy(blueprint_json_string)
               \/ (~Truthy(facts_data) /\ ~Truthy(previous))
       THEN ReturnsDict("Writer",
                Map(<<Pair("output",
                      Str("Error: Missing blueprint or facts or previous for content generation."))>>),
                0, 0, FALSE)
       ELSE IF ~go.ok
       THEN Raises(go.exc, 0, 1, TRUE)
       ELSE ReturnsDict("Writer", Map(<<Pair("output", Str(go.text))>>),
                        0, 1, FALSE)

(***************************************************************************)
(* AgentRegistry (src/rag/agents/registry.py)                              *)
(***************************************************************************)
RegisteredAgents == {"librarian", "researcher", "writer", "summarizer"}
\* AgentRegistry.get: [ok, agent, exc]
RegistryGet(agent_name) ==
    LET name == Lower(agent_name)
    IN IF name \in RegisteredAgents
       THEN [ok |-> TRUE, agent |-> name, exc |-> NoExc]
       ELSE [ok |-> FALSE, agent |-> "",
             exc |-> Exc("ValueError",
                         "Agent '" \o name \o "' not found in registry.",
                         <<name>>)]
\* what the searcher can do when the agent calls it: the Librarian asks
\* for top_k = 1, the Researcher for top_k = 3; the others have no searcher
NoSearch == [ok |-> TRUE, results |-> <<>>, exc |-> NoExc]
SearchOutcomesFor(agent) ==
    CASE agent = "librarian" -> SearchOutcomes(1)
      [] agent = "researcher" -> SearchOutcomes(3)
      [] OTHER -> {NoSearch}
\* what the generator can do when the agent calls it; the Librarian has no
\* generator
NoGen == [ok |-> TRUE, text |-> "", exc |-> NoExc]
GenOutcomesFor(agent) == IF agent = "librarian" THEN {NoGen} ELSE GenOutcomes
\* agent.execute({"content": content}) of a registered agent
AgentExecute(agent, content, so, go) ==
    CASE agent = "librarian" -> LibrarianExecute(content, so, go)
      [] agent = "researcher" -> ResearcherExecute(content, so, go)
      [] agent = "summarizer" -> SummarizerExecute(content, so, go)
      [] agent = "writer" -> WriterExecute(content, so, go)

(***************************************************************************)
(* PlannerAgent (src/rag/agents/planner.py)                                *)
(*                                                                         *)
(* The model's reply is a text; the model keeps what decides its parsing:  *)
(* whether it is wrapped in a markdown fence, and the JSON document it     *)
(* holds (NotJson when the text is not JSON).                              *)
(***************************************************************************)
NotJson == [t |-> "invalid", s |-> "Here is the plan you asked for", m |-> <<>>]
Reply(fence, doc) == [fence |-> fence, doc |-> doc]
JSONDecodeError == Exc("JSONDecodeError", "Expecting value: line 1 column 1 (char 0)", <<>>)

\* _extract_json_from_response: [ok, value, exc]
\* the fence pattern matches only around a {...} or a [...]; anything else
\* is handed to json.loads with its fence
ExtractJson(reply) ==
    IF reply.doc.t = "invalid"
    THEN [ok |-> FALSE, value |-> NoneV, exc |-> JSONDecodeError]
    ELSE IF reply.fence # "none" /\ ~(IsMap(reply.doc) \/ IsList(reply.doc))
    THEN [ok |-> FALSE, value |-> NoneV, exc |-> JSONDecodeError]
    ELSE [ok |-> TRUE, value |-> reply.doc, exc |-> NoExc]

RequiredStepFields == <<"step", "agent", "input">>
\* f in step, for the Python types a JSON document can hold
FieldIn(f, step) ==
    CASE step.t = "map" -> Has(step.m, f)
      [] step.t = "str" -> Contains(step.s, f)
      [] step.t = "list" -> \E j \in 1..Len(step.m) : step.m[j] = Str(f)
      [] OTHER -> FALSE
\* _validate_plan_schema: the exception it raises, NoExc when it returns
\* (the message stops before the trailing ". Step: {step}" text, the repr of
\* the offending step; the detail field carries the index and the fields)
ValidatePlanSchema(p) ==
    IF ~IsList(p)
    THEN Exc("ValueError", "Plan must be a list, got <class '" \o TypeName(p) \o "'>",
             <<TypeName(p)>>)
    ELSE LET bad == {i \in 1..Len(p.m) :
                        \/ p.m[i].t \in {"num", "none"}
                        \/ \E k \in 1..3 : ~FieldIn(RequiredStepFields[k], p.m[i])}
         IN IF bad = {}
            THEN NoExc
            ELSE LET i == CHOOSE a \in bad : \A b \in bad : a <= b
                 IN IF p.m[i].t \in {"num", "none"}
                    THEN Exc("TypeError",
                             "argument of type '" \o TypeName(p.m[i]) \o "' is not iterable",
                             <<>>)
                    ELSE LET missing ==
                                 SelectSeq(RequiredStepFields,
                                           LAMBDA f : ~FieldIn(f, p.m[i]))
                         IN Exc("ValueError",
                                "Step " \o ToString(i - 1) \o " missing fields: "
                                  \o ListRepr(missing),
                                <<i - 1, missing>>)

\* lines 117-120: how create_plan re-raises what went wrong inside its try
PlannerReraise(e) ==
    IF e.type = "JSONDecodeError"
    THEN Exc("ValueError", "Failed to parse plan as JSON: " \o e.msg, <<>>)
    ELSE Exc("ValueError", "Planner failed to generate a valid plan: " \o e.msg, <<>>)

\* create_plan, for the outcome go of generator.generate and the reply it
\* returned: [ok, value, exc]
CreatePlanResult(go, reply) ==
    IF ~go.ok
    THEN [ok |-> FALSE, value |-> NoneV, exc |-> PlannerReraise(go.exc)]
    ELSE LET parsed == ExtractJson(reply)
         IN IF ~parsed.ok
            THEN [ok |-> FALSE, value |-> NoneV, exc |-> PlannerReraise(parsed.exc)]
            ELSE LET plan_data == parsed.value
                     wrapped == IsMap(plan_data)
                     found == wrapped => (Has(plan_data.m, "plan") \/ Has(plan_data.m, "steps"))
                     p == IF ~wrapped THEN plan_data
                          ELSE IF Has(plan_data.m, "plan") THEN Get(plan_data.m, "plan")
                          ELSE IF Has(plan_data.m, "steps") THEN Get(plan_data.m, "steps")
                          ELSE NoneV
                 IN IF ~found
                    THEN [ok |-> FALSE, value |-> NoneV,
                          exc |-> PlannerReraise(
                                     Exc("ValueError",
                                         "Expected 'plan' or 'steps' key, got: "
                                           \o ListRepr(Keys(plan_data.m)), <<>>))]
                    ELSE IF ValidatePlanSchema(p) # NoExc
                    THEN [ok |-> FALSE, value |-> NoneV,
                          exc |-> PlannerReraise(ValidatePlanSchema(p))]
                    ELSE [ok |-> TRUE, value |-> p, exc |-> NoExc]

(***************************************************************************)
(* ContextEngine.execute                                                   *)
(*                                                                         *)
(*   pc        where the modelled call stands:                             *)
(*               "plan"   execute entered, Phase 1 not yet run             *)
(*               "loop"   at the head of the for loop of Phase 2           *)
(*               "await"  agent.execute has been called for step idx and   *)
(*                        its outcome is in mcp_output                     *)
(*               "done"   the call has returned or raised                  *)
(*   plan      the list of steps being executed                            *)
(*   idx       position in plan of the current step (from 1)               *)
(*   state     the execution state, key STEP_<n>_OUTPUT -> content         *)
(*   mcp_input the resolved input handed to the last agent called          *)
(*   mcp_output the outcome of the last agent.execute call                 *)
(*   result    what the modelled call returned or raised                   *)
(*   invoked   history: the positions whose agent.execute has been called  *)
(*   op        the call being modelled: "execute" (ContextEngine.execute   *)
(*             from its first line), "run_plan" (Phase 2 of execute, from  *)
(*             line 41, for a plan that passed the planner's validation),  *)
(*             "resolve" (_resolve_dependencies) or "create_plan"          *)
(*             (PlannerAgent.create_plan)                                  *)
(*   llm       for create_plan: what generator.generate does, and the      *)
(*             reply it returns                                            *)
(*   args, log, locals   used by the calls of the core layer, further      *)
(*             down; empty throughout the calls modelled here              *)
(***************************************************************************)
VARIABLES op, pc, plan, idx, state, mcp_input, mcp_output, result, invoked, llm,
          args, log, locals
vars == <<op, pc, plan, idx, state, mcp_input, mcp_output, result, invoked, llm,
          args, log, locals>>

NoOutcome == Outcome("none", "", NoneV, "", NoneV, NoExc, 0, 0, FALSE)
NoResult == [kind |-> "none", value |-> NoneV, exc |-> NoExc]
Returned(v) == [kind |-> "return", value |-> v, exc |-> NoExc]
Raised(e) == [kind |-> "raise", value |-> NoneV, exc |-> e]

\* a handler that names SearchError where line 59 names PipelineError
CaughtSearchErrorOnly(e) ==
    IF e.type = "SearchError"
    THEN Returned(Map(<<Pair("error", Str(e.msg))>>))
    ELSE Raised(e)

\* lines 59-61: what execute does with an exception raised inside the try
Caught(e) ==
    IF IsPipelineError(e)
    THEN Returned(Map(<<Pair("error", Str(e.msg))>>))
    ELSE Raised(e)

\* a plan step {"step": n, "agent": a, "input": {...}}
Step(n, agent, input) ==
    Map(<<Pair("step", Num(n)), Pair("agent", Str(agent)), Pair("input", Map(input))>>)
\* the agent names and inputs of the steps the model draws plans from
StepCalls ==
    {<<"Librarian", <<Pair("intent", Str("suspenseful narrative blueprint"))>>>>,
     <<"librarian", <<Pair("intent", Str("STEP_1_OUTPUT"))>>>>,
     <<"Researcher", <<Pair("topic", Str("Apollo 11"))>>>>,
     <<"summarizer", <<Pair("text_to_summarize", Str("STEP_1_OUTPUT")),
                       Pair("summary_objective", Str("key facts"))>>>>,
     <<"Writer", <<Pair("blueprint", Str("STEP_1_OUTPUT")),
                   Pair("facts", Str("Apollo 11 landed in 1969"))>>>>,
     <<"writer", <<Pair("blueprint", Str("{}")),
                   Pair("previous_content", Str("an older draft"))>>>>,
     <<"writer", <<Pair("blueprint", Str("{}")), Pair("facts", Str("")),
                   Pair("previous_content", Str("STEP_1_OUTPUT"))>>>>,
     <<"editor", <<Pair("intent", Str("formal"))>>>>}
PlanSteps == {Step(n, c[1], c[2]) : n \in 1..MaxStepNo, c \in StepCalls}
\* the plans that pass PlannerAgent._validate_plan_schema
ValidPlans == UNION {[1..n -> PlanSteps] : n \in 0..MaxPlanLen}

\* lines 33-37: evaluating the arguments of the create_plan call reads
\* self.registry._registry, an attribute AgentRegistry does not have
PlanPhase ==
    /\ pc = "plan"
    /\ result' = Caught(Exc("AttributeError",
                    "'AgentRegistry' object has no attribute '_registry'", <<>>))
    /\ pc' = "done"
    /\ UNCHANGED <<args, log, locals, op, plan, idx, state, mcp_input, mcp_output, invoked, llm>>

\* lines 42-46: the next step's agent is looked up, its input resolved and
\* the agent called
InvokeStep ==
    /\ pc = "loop"
    /\ idx <= Len(plan)
    /\ LET step == plan[idx].m
           got == RegistryGet(Get(step, "agent").s)
           resolved == ResolveDependencies(Get(step, "input").m, state)
       IN IF ~got.ok
          THEN /\ result' = Caught(got.exc)
               /\ pc' = "done"
               /\ UNCHANGED <<mcp_input, mcp_output, invoked>>
          ELSE IF ~resolved.ok
          THEN /\ result' = Caught(resolved.exc)
               /\ pc' = "done"
               /\ UNCHANGED <<mcp_input, mcp_output, invoked>>
          ELSE \E so \in SearchOutcomesFor(got.agent), go \in GenOutcomesFor(got.agent) :
                 LET o == AgentExecute(got.agent, resolved.value, so, go)
                 IN /\ mcp_input' = resolved.value
                    /\ mcp_output' = o
                    /\ invoked' = Append(invoked, idx)
                    /\ IF o.kind = "raise"
                       THEN result' = Caught(o.exc) /\ pc' = "done"
                       ELSE result' = result /\ pc' = "await"
    /\ UNCHANGED <<args, log, locals, op, plan, idx, state, llm>>

\* the loop body without line 47: the response's content is not stored
RecordStepWithoutStore ==
    /\ pc = "await"
    /\ IF mcp_output.kind # "AgentResponse"
       THEN /\ result' = Caught(Exc("AttributeError",
                            "'dict' object has no attribute 'content'", <<>>))
            /\ pc' = "done"
            /\ idx' = idx
       ELSE IF mcp_output.status = "blocked"
       THEN /\ result' = Returned(mcp_output.content)
            /\ pc' = "done"
            /\ idx' = idx
       ELSE /\ result' = result
            /\ pc' = "loop"
            /\ idx' = idx + 1
    /\ UNCHANGED <<args, log, locals, op, plan, state, mcp_input, mcp_output, invoked, llm>>

\* lines 47-56: the response's content is stored; a blocked response ends
\* the run
RecordStep ==
    /\ pc = "await"
    /\ IF mcp_output.kind # "AgentResponse"
       THEN \* mcp_output.content on a dict
            /\ result' = Caught(Exc("AttributeError",
                            "'dict' object has no attribute 'content'", <<>>))
            /\ pc' = "done"
            /\ UNCHANGED <<state, idx>>
       ELSE /\ state' = Put(state, StepKey(Get(plan[idx].m, "step")),
                            mcp_output.content)
            /\ IF mcp_output.status = "blocked"
               THEN /\ result' = Returned(mcp_output.content)
                    /\ pc' = "done"
                    /\ idx' = idx
               ELSE /\ result' = result
                    /\ pc' = "loop"
                    /\ idx' = idx + 1
    /\ UNCHANGED <<args, log, locals, op, plan, mcp_input, mcp_output, invoked, llm>>

\* line 58: the loop is over
ReturnLast ==
    /\ pc = "loop"
    /\ idx > Len(plan)
    /\ LET key == StepKey(Num(Len(plan)))
       IN result' = IF Has(state, key)
                    THEN Returned(Get(state, key))
                    ELSE Caught(Exc("KeyError", "'" \o key \o "'", <<key>>))
    /\ pc' = "done"
    /\ UNCHANGED <<args, log, locals, op, plan, idx, state, mcp_input, mcp_output, invoked, llm>>

\* a direct call of _resolve_dependencies(input_params, state), the
\* parameters being the input of the one step in plan
ResolveCall ==
    /\ pc = "resolve"
    /\ LET r == ResolveDependencies(Get(plan[1].m, "input").m, state)
       IN result' = IF r.ok THEN Returned(Map(r.value)) ELSE Raised(r.exc)
    /\ pc' = "done"
    /\ UNCHANGED <<args, log, locals, op, plan, idx, state, mcp_input, mcp_output, invoked, llm>>

\* a call of PlannerAgent.create_plan(goal, capabilities)
CreatePlan ==
    /\ pc = "create_plan"
    /\ LET r == CreatePlanResult(llm.go, llm.reply)
       IN result' = IF r.ok THEN Returned(r.value) ELSE Raised(r.exc)
    /\ pc' = "done"
    /\ UNCHANGED <<args, log, locals, op, plan, idx, state, mcp_input, mcp_output, invoked, llm>>

(***************************************************************************)
(* The inputs the calls are checked on.                                    *)
(***************************************************************************)
\* stored step outputs: a text, and maps holding some of the content keys
StoredMaps ==
    {<<>>,
     <<Pair("output", Str("O"))>>,
     <<Pair("facts", Str("F"))>>,
     <<Pair("summary", Str("S"))>>,
     <<Pair("blueprint", Str("B"))>>,
     <<Pair("other", Str("Y"))>>,
     <<Pair("facts", Str("F")), Pair("output", Str("O"))>>,
     <<Pair("blueprint", Str("B")), Pair("summary", Str("S"))>>,
     <<Pair("summary", Str("S")), Pair("facts", Str("F")), Pair("other", Str("Y"))>>,
     <<Pair("blueprint", Str("B")), Pair("summary", Str("S")),
       Pair("facts", Str("F")), Pair("output", Str("O"))>>,
     <<Pair("content", Map(<<Pair("blueprint", Str("B"))>>))>>,
     <<Pair("other", Str("Y")), Pair("blueprint", Map(<<Pair("tone", Str("tense"))>>))>>}
StoredValues == {Str("plain text"), Str("STEP_2_OUTPUT")} \cup {Map(d) : d \in StoredMaps}
ResolveStates ==
    {<<>>}
    \cup {<<Pair(StepKey(Num(1)), v)>> : v \in StoredValues}
    \cup {<<Pair(StepKey(Num(1)), v), Pair(StepKey(Num(2)), Map(<<Pair("facts", Str("F2"))>>))>> :
            v \in StoredValues}
ResolveInputs ==
    {<<Pair("topic", Str("STEP_1_OUTPUT"))>>,
     <<Pair("blueprint", Str("STEP_1_OUTPUT")), Pair("facts", Str("STEP_2_OUTPUT")),
       Pair("note", Str("step_1_output"))>>,
     <<Pair("topic", Str("Apollo 11")), Pair("depth", Num(2)),
       Pair("options", Map(<<Pair("ref", Str("STEP_1_OUTPUT"))>>))>>,
     <<Pair("a", Str("STEP_1_OUTPUT")), Pair("b", Str("STEP_X")), Pair("c", Str("STEP_2_OUTPUT"))>>}

\* replies of the model to the planner's prompt
GoodSteps ==
    <<Step(1, "Librarian", <<Pair("intent", Str("suspenseful narrative blueprint"))>>),
      Step(2, "Researcher", <<Pair("topic", Str("Apollo 11"))>>)>>
StepWithoutInput == Map(<<Pair("step", Num(1)), Pair("agent", Str("Writer"))>>)
ReplyDocs ==
    {NotJson,
     Num(42),
     Str("no plan"),
     List(<<>>),
     List(GoodSteps),
     List(<<GoodSteps[1], StepWithoutInput>>),
     List(<<Num(1), GoodSteps[1]>>),
     Map(<<Pair("plan", List(GoodSteps))>>),
     Map(<<Pair("steps", List(GoodSteps))>>),
     Map(<<Pair("steps", List(GoodSteps)), Pair("plan", Str("see steps"))>>),
     Map(<<Pair("result", List(GoodSteps))>>),
     Map(<<Pair("plan", Map(<<Pair("1", GoodSteps[1])>>))>>)}
Replies == {Reply(f, d) : f \in {"none", "json", "plain"}, d \in ReplyDocs}
NoLlm == [go |-> [ok |-> TRUE, text |-> "", exc |-> NoExc], reply |-> Reply("none", NoneV)]
LlmOutcomes ==
    {[go |-> g, reply |-> IF g.ok THEN r ELSE Reply("none", NoneV)] :
        g \in GenOutcomes, r \in Replies}

Init ==
    /\ op \in {"execute", "run_plan", "resolve", "create_plan"}
    /\ pc = CASE op = "execute" -> "plan"
              [] op = "run_plan" -> "loop"
              [] op = "resolve" -> "resolve"
              [] op = "create_plan" -> "create_plan"
    /\ plan \in CASE op = "run_plan" -> ValidPlans
                  [] op = "resolve" -> {<<Step(1, "writer", i)>> : i \in ResolveInputs}
                  [] OTHER -> {<<>>}
    /\ state \in IF op = "resolve" THEN ResolveStates ELSE {<<>>}
    /\ llm \in IF op = "create_plan" THEN LlmOutcomes ELSE {NoLlm}
    /\ idx = 1
    /\ mcp_input = <<>>
    /\ mcp_output = NoOutcome
    /\ result = NoResult
    /\ invoked = <<>>
    /\ args = <<>>
    /\ log = <<>>
    /\ locals = <<>>

Next == PlanPhase \/ InvokeStep \/ RecordStep \/ ReturnLast \/ ResolveCall \/ CreatePlan

Spec == Init /\ [][Next]_vars
(***************************************************************************)
(* Properties.                                                             *)
(***************************************************************************)
\* the agent the registry returns for the step at position i of the plan
AgentAt(i) == Lower(Get(plan[i].m, "agent").s)
\* the key under which the step at position i stores its output
KeyAt(i) == StepKey(Get(plan[i].m, "step"))
\* agent.execute has been called for the current step
CurrentInvoked == op = "run_plan" /\ Len(invoked) = idx /\ idx <= Len(plan)

\* C1: the agents are invoked one at a time in plan order: each invocation
\* is for the position right after the last one invoked, and happens only
\* when the previous step's response content is in the execution state
\* under that step's STEP_<n>_OUTPUT key.
C1_StepsInPlanOrder ==
    [][invoked' # invoked =>
         /\ invoked' = Append(invoked, Len(invoked) + 1)
         /\ idx = Len(invoked) + 1
         /\ idx > 1 =>
              /\ mcp_output.kind = "AgentResponse"
              /\ Has(state, KeyAt(idx - 1))
              /\ Get(state, KeyAt(idx - 1)) = mcp_output.content]_vars
C1_Witness == pc = "await" /\ idx = 2 /\ invoked = <<1, 2>>

\* C3: when the loop has run through a non-empty plan (every step returned
\* a non-blocked response), execute returns the content recorded for the
\* last step.
C3_ReturnsLastStepContent ==
    (op = "run_plan" /\ pc = "done" /\ Len(plan) > 0 /\ idx = Len(plan) + 1)
        => result = Returned(mcp_output.content)

\* C4: a PipelineError raised inside execute never leaves it: the call
\* returns {"error": <message>} and the run is over.
C4_PipelineErrorsCaught ==
    /\ op \in {"execute", "run_plan"} /\ result.kind = "raise"
         => ~IsPipelineError(result.exc)
    /\ mcp_output.kind = "raise" /\ IsPipelineError(mcp_output.exc)
         => /\ pc = "done"
            /\ result = Returned(Map(<<Pair("error", Str(mcp_output.exc.msg))>>))
            /\ Len(invoked) = idx
C4_Witness ==
    /\ mcp_output.kind = "raise"
    /\ mcp_output.exc.type = "GenerationError"
    /\ result.kind = "return"
    /\ idx = 2

\* the value the claim of C5 gives for a reference to the stored value rv
C5_Expected(rv) ==
    IF ~IsMap(rv) THEN rv
    ELSE IF Has(rv.m, "output") THEN Get(rv.m, "output")
    ELSE IF Has(rv.m, "facts") THEN Get(rv.m, "facts")
    ELSE IF Has(rv.m, "summary") THEN Get(rv.m, "summary")
    ELSE IF Has(rv.m, "blueprint") THEN Get(rv.m, "blueprint")
    ELSE rv
\* C5: when _resolve_dependencies returns, the result has the parameters of
\* the input in the same order; a parameter whose value is a string
\* beginning with STEP_ holds the stored value, unwrapped by the first
\* present key of output, facts, summary, blueprint when it is a map; every
\* other parameter is unchanged.
C5_ResolutionRule ==
    (op = "resolve" /\ pc = "done" /\ result.kind = "return") =>
        LET input == Get(plan[1].m, "input").m
            out == result.value.m
        IN /\ Len(out) = Len(input)
           /\ \A i \in 1..Len(input) :
                /\ out[i].k = input[i].k
                /\ IF IsStr(input[i].v) /\ StartsWith(input[i].v.s, "STEP_")
                   THEN /\ Has(state, input[i].v.s)
                        /\ out[i].v = C5_Expected(Get(state, input[i].v.s))
                   ELSE out[i].v = input[i].v
C5_Witness ==
    /\ op = "resolve" /\ pc = "done" /\ result.kind = "return"
    /\ Len(state) = 2
    /\ IsMap(state[1].v) /\ Has(state[1].v.m, "output") /\ Has(state[1].v.m, "facts")
    /\ Len(result.value.m) = 3
    /\ result.value.m[1].v = Str("O")
    /\ result.value.m[2].v = Str("F2")

\* a parameter of the dict holds a reference that is not a key of st
C6_HasMissingRef(input, st) ==
    \E i \in 1..Len(input) :
        IsStr(input[i].v) /\ StartsWith(input[i].v.s, "STEP_") /\ ~Has(st, input[i].v.s)
\* the exception is the validation error of an unresolved reference of the
\* input: it names the reference and lists the keys of st
C6_IsUnresolvedError(e, input, st) ==
    /\ e.type = "ValueError"
    /\ Len(e.detail) = 3
    /\ \E i \in 1..Len(input) :
         /\ input[i].v = Str(e.detail[1])
         /\ input[i].k = e.detail[2]
         /\ ~Has(st, e.detail[1])
    /\ e.detail[3] = Keys(st)
    /\ Contains(e.msg, "'" \o e.detail[1] \o "'")
    /\ Contains(e.msg, ListRepr(Keys(st)))
C7_PlannerRaisesPlanningError ==
    (op = "create_plan" /\ result.kind = "raise") => result.exc.type = "PlanningError"

\* C8: what a registered agent's execute returns is an AgentResponse with a
\* sender, a content map and a status in {success, error, blocked}.
C8_AgentsReturnAgentResponse ==
    pc = "await" =>
        /\ mcp_output.kind = "AgentResponse"
        /\ mcp_output.sender # ""
        /\ IsMap(mcp_output.content)
        /\ mcp_output.status \in {"success", "error", "blocked"}

\* C9: an agent whose search or generation call failed returns an
\* error-status AgentResponse, and the engine goes on with the plan.
C9_AgentFailuresBecomeErrorResponses ==
    (CurrentInvoked /\ mcp_output.callFailed) =>
        /\ mcp_output.kind = "AgentResponse"
        /\ mcp_output.status = "error"
        /\ pc = "await"

\* C10: the Writer, given a non-empty blueprint and either non-empty facts
\* without previous_content or non-empty previous_content without facts,
\* raises no missing-field error and calls the generator once; when the
\* generator answers, the text is returned under output.
C10_WriterAcceptsEitherSource ==
    (/\ CurrentInvoked
     /\ AgentAt(idx) = "writer"
     /\ Has(mcp_input, "blueprint") /\ Truthy(Get(mcp_input, "blueprint"))
     /\ \/ /\ Has(mcp_input, "facts") /\ Truthy(Get(mcp_input, "facts"))
           /\ ~Has(mcp_input, "previous_content")
        \/ /\ Has(mcp_input, "previous_content")
           /\ Truthy(Get(mcp_input, "previous_content"))
           /\ ~Has(mcp_input, "facts"))
        => /\ mcp_output.genCalls = 1
           /\ mcp_output.kind = "raise" => mcp_output.exc.type = "GenerationError"
           /\ mcp_output.kind # "raise" =>
                /\ Has(mcp_output.content.m, "output")
                /\ Get(mcp_output.content.m, "output").s \in GenTexts

\* what the Librarian's blueprint field is to hold for a search outcome
C11_Expected(so) ==
    IF so.results # <<>>
    THEN GetOr(so.results[1].metadata, "blueprint_json", Str("{}"))
    ELSE Str("{\"instruction\": \"Generate neutral content\"}")

\* C11: a successful Librarian response has, in its content, the field
\* blueprint: the first hit's metadata blueprint_json ("{}" when the hit has
\* none), or the JSON text of the neutral instruction when there is no hit.
C11_LibrarianBlueprintField ==
    (/\ CurrentInvoked
     /\ AgentAt(idx) = "librarian"
     /\ mcp_output.kind = "AgentResponse"
     /\ mcp_output.status = "success")
        => \E so \in SearchOutcomesFor("librarian") :
              /\ so.ok
              /\ mcp_output = LibrarianExecute(mcp_input, so, NoGen)
              /\ Has(mcp_output.content.m, "blueprint")
              /\ Get(mcp_output.content.m, "blueprint") = C11_Expected(so)

(***************************************************************************)
(* The core layer: DocumentIngester (src/rag/core/document_ingester.py),   *)
(* SemanticSearcher.search (src/rag/core/semantic_searcher.py),            *)
(* RAGPipeline.answer_question and close                                   *)
(* (src/rag/pipeline/rag_pipeline.py) and AzureContentSafety.moderate_text *)
(* (src/rag/implementations/azure_content_safety.py).                      *)
(*                                                                         *)
(* The providers (index manager, embedder, vector store, generator, the    *)
(* content-safety client) are the environment: each of their calls returns *)
(* or raises, and is appended to log.  Python's True and False are the     *)
(* integers 1 and 0, as they are in Python.  Times (duration_seconds,      *)
(* created_at) are left out.                                               *)
(***************************************************************************)
\* most items (or blueprints) handed to one ingestion call
MaxItems == 2

True == 1
False == 0

(***************************************************************************)
(* Text extraction and chunking (src/rag/utils).                           *)
(***************************************************************************)
Whitespace == {" ", "\t", "\n", "\r"}
RECURSIVE LStrip(_)
LStrip(s) ==
    IF Len(s) > 0 /\ SubSeq(s, 1, 1) \in Whitespace
    THEN LStrip(SubSeq(s, 2, Len(s)))
    ELSE s
RECURSIVE RStrip(_)
RStrip(s) ==
    IF Len(s) > 0 /\ SubSeq(s, Len(s), Len(s)) \in Whitespace
    THEN RStrip(SubSeq(s, 1, Len(s) - 1))
    ELSE s
\* str.strip()
Strip(s) == RStrip(LStrip(s))

\* normalize_single_item: the name given to an item (a text that names no
\* file, a dict without name or filename, a value of any other type)
ItemName(item) ==
    CASE item.t = "str" -> "text"
      [] item.t = "map" -> "unnamed"
      [] OTHER -> "unknown"

\* file_to_text_content(normalize_single_item(item)) for the items of the
\* model: texts that name no file and hold no HTML, dicts that hold a text
\* under one of the keys looked up or nothing at all, and values of a type
\* the normaliser does not know.  None when no text can be produced.
TextKeys == <<"text", "message", "body", "content">>
FileToTextContent(item) ==
    CASE item.t = "str" -> item
      [] item.t = "map" ->
           LET found == SelectSeq(TextKeys,
                           LAMBDA k : /\ Has(item.m, k)
                                      /\ IsStr(Get(item.m, k))
                                      /\ Strip(Get(item.m, k).s) # "")
           IN (CASE found # <<>> -> Get(item.m, Head(found))
                 [] item.m = <<>> -> Str("{}"))
      [] OTHER -> NoneV

Min(a, b) == IF a < b THEN a ELSE b
\* chunk_text: the while loop from position start (0-based)
RECURSIVE ChunkFrom(_, _, _, _)
ChunkFrom(text, start, max_chars, overlap) ==
    LET n == Len(text)
        end == Min(start + max_chars, n)
        chunk == Strip(SubSeq(text, start + 1, end))
        rest == IF end >= n THEN <<>>
                ELSE ChunkFrom(text, end - overlap, max_chars, overlap)
    IN IF start >= n THEN <<>>
       ELSE IF chunk # "" THEN <<chunk>> \o rest ELSE rest
\* chunk_text(text, max_chars, overlap)
ChunkText(text, max_chars, overlap) ==
    IF ~Truthy(text) THEN <<>> ELSE ChunkFrom(text.s, 0, max_chars, overlap)

\* batched(seq, batch_size): the slice that starts at 0-based position i
Batch(seq, i, batch_size) == SubSeq(seq, i + 1, Min(i + batch_size, Len(seq)))

\* make_item_source_id for an item that is no file path
MakeItemSourceId(item, i, base_source_id) ==
    base_source_id \o "-" \o ItemName(item) \o "-" \o ToString(i)

\* make_search_documents: one document per (chunk, embedding) pair
MakeSearchDocuments(source_id, content_chunks, embeddings) ==
    [j \in 1..Min(Len(content_chunks), Len(embeddings)) |->
        [id |-> source_id \o "-" \o ToString(j - 1),
         source_id |-> source_id,
         chunk_id |-> j - 1,
         chunk |-> content_chunks[j],
         chunk_vector |-> embeddings[j]]]

(***************************************************************************)
(* The providers.                                                          *)
(***************************************************************************)
\* one call of a provider: what was called, with what, and what came back
Call(target, method, arg, ok, ret) ==
    [target |-> target, method |-> method, arg |-> arg, ok |-> ok, ret |-> ret]
\* the calls of log made to method of target
CallsTo(target, method) ==
    SelectSeq(log, LAMBDA c : c.target = target /\ c.method = method)
ProviderError(what) == Exc("RuntimeError", what \o " unavailable", <<>>)

\* EmbeddingProvider.embed(batch): it raises, or returns as many vectors as
\* there are texts, or one fewer, or one more.  A vector is modelled by its
\* rank among all the vectors the embedder has returned in this call.
EmbedCounts(batch) == {n \in {Len(batch) - 1, Len(batch), Len(batch) + 1} : n >= 0}
Vectors(returned, n) == [j \in 1..n |-> returned + j]
\* the number of vectors the embed calls of log have returned
RECURSIVE VectorsReturned(_)
VectorsReturned(calls) ==
    IF calls = <<>> THEN 0
    ELSE (IF Head(calls).ok THEN Len(Head(calls).ret) ELSE 0)
         + VectorsReturned(Tail(calls))

\* VectorStoreProvider.upsert_documents(docs): it raises, or returns the
\* number of documents written: all of them, or one fewer
UpsertCounts(docs) == {n \in {Len(docs) - 1, Len(docs)} : n >= 0}

(***************************************************************************)
(* IngestionResult (src/rag/models/types.py)                               *)
(***************************************************************************)
\* the dataclass fields without a default, in declaration order
RequiredResultFields ==
    <<"success", "documents_processed", "chunks_created", "documents_uploaded">>
\* Python's message for a call that leaves out required arguments
MissingArgsError(missing) ==
    Exc("TypeError",
        "IngestionResult.__init__() missing " \o ToString(Len(missing))
          \o " required positional argument"
          \o (IF Len(missing) = 1 THEN ": '" \o missing[1] \o "'"
              ELSE IF Len(missing) = 2
              THEN "s: '" \o missing[1] \o "' and '" \o missing[2] \o "'"
              ELSE "s: " \o JoinQuoted(SubSeq(missing, 1, Len(missing) - 1))
                     \o ", and '" \o missing[Len(missing)] \o "'"),
        missing)
\* IngestionResult(**kw): the object, or the TypeError of the constructor
\* when a field without a default is not given
IngestionResult(kw) ==
    LET missing == SelectSeq(RequiredResultFields, LAMBDA f : f \notin DOMAIN kw)
    IN IF missing # <<>>
       THEN Raised(MissingArgsError(missing))
       ELSE Returned([success |-> kw.success,
                      documents_processed |-> kw.documents_processed,
                      chunks_created |-> kw.chunks_created,
                      documents_uploaded |-> kw.documents_uploaded,
                      errors |-> IF "errors" \in DOMAIN kw THEN kw.errors ELSE <<>>])

(***************************************************************************)
(* DocumentIngester.ingest_documents                                       *)
(*                                                                         *)
(*   args    the arguments of the call (items, chunking_config) and the    *)
(*           ingester's batch_size                                         *)
(*   locals  the local variables of the call, under their names            *)
(*   log     the provider calls made so far, oldest first                  *)
(*   pc      "index" (line 134), "chunk" (line 139), "embed" (line 194:    *)
(*           the next batch starts at 0-based position locals.i), "done"   *)
(***************************************************************************)
\* the variables of the multi-agent layer, which the core layer leaves alone
engineVars == <<plan, idx, state, mcp_input, mcp_output, invoked, llm>>

\* all_chunks[a:b]
Slice(seq, a, b) == SubSeq(seq, a + 1, Min(b, Len(seq)))
RECURSIVE Concat(_)
Concat(seqs) == IF seqs = <<>> THEN <<>> ELSE Head(seqs) \o Concat(Tail(seqs))

\* lines 134-136: the index is created when it does not exist; a failure
\* of the index manager leaves the call
EnsureIndex ==
    /\ op = "ingest_documents" /\ pc = "index"
    /\ \/ /\ log' = Append(log, Call("index_manager", "index_exists", <<>>, TRUE, TRUE))
          /\ pc' = "chunk" /\ result' = result
       \/ /\ log' = Append(log, Call("index_manager", "index_exists", <<>>, FALSE,
                                     ProviderError("index_exists")))
          /\ pc' = "done" /\ result' = Raised(ProviderError("index_exists"))
       \/ /\ log' = log \o <<Call("index_manager", "index_exists", <<>>, TRUE, FALSE),
                             Call("index_manager", "create_index", <<>>, TRUE, TRUE)>>
          /\ pc' = "chunk" /\ result' = result
       \/ /\ log' = log \o <<Call("index_manager", "index_exists", <<>>, TRUE, FALSE),
                             Call("index_manager", "create_index", <<>>, FALSE,
                                  ProviderError("create_index"))>>
          /\ pc' = "done" /\ result' = Raised(ProviderError("create_index"))
    /\ UNCHANGED <<op, args, locals, engineVars>>

\* lines 139-188: every item is turned into text and the text into chunks;
\* without a chunk the call ends with the result object of lines 184-188
NormalizeAndChunk ==
    /\ op = "ingest_documents" /\ pc = "chunk"
    /\ LET items == args.items
           config == args.chunking_config
           normalized == [i \in 1..Len(items) |-> FileToTextContent(items[i])]
           chunks == [i \in 1..Len(items) |->
                         ChunkText(normalized[i], config.chunk_size, config.overlap)]
           chunk_map == [i \in 1..Len(items) |-> Len(chunks[i])]
           all_chunks == Concat(chunks)
       IN /\ locals' = [normalized |-> normalized, chunk_map |-> chunk_map,
                        all_chunks |-> all_chunks, embeddings |-> <<>>, i |-> 0,
                        docs |-> <<>>]
          /\ IF all_chunks = <<>>
             THEN /\ pc' = "done"
                  /\ result' = IngestionResult(
                         [success |-> False, documents_processed |-> Len(items),
                          errors |-> <<"No chunks generated from input items. Check text extraction.">>])
             ELSE pc' = "embed" /\ result' = result
    /\ UNCHANGED <<op, args, log, engineVars>>

\* lines 194-211: one pass of the batch loop; a failure of the embedder
\* ends the call with a failed result
EmbedBatch ==
    /\ op = "ingest_documents" /\ pc = "embed"
    /\ locals.i < Len(locals.all_chunks)
    /\ LET batch == Batch(locals.all_chunks, locals.i, args.batch_size)
           returned == VectorsReturned(CallsTo("embedder", "embed"))
       IN \/ \E n \in EmbedCounts(batch) :
               LET batch_embeddings == Vectors(returned, n)
               IN /\ log' = Append(log, Call("embedder", "embed", batch, TRUE,
                                             batch_embeddings))
                  /\ locals' = [locals EXCEPT
                                  !.embeddings = locals.embeddings \o batch_embeddings,
                                  !.i = locals.i + args.batch_size]
                  /\ pc' = pc /\ result' = result
          \/ /\ log' = Append(log, Call("embedder", "embed", batch, FALSE,
                                        ProviderError("embedding service")))
             /\ locals' = locals
             /\ pc' = "done"
             /\ result' = IngestionResult(
                    [success |-> False, documents_processed |-> Len(args.items),
                     chunks_created |-> Len(locals.all_chunks),
                     errors |-> <<"Embedding generation failed: "
                                    \o ProviderError("embedding service").msg>>,
                     documents_uploaded |-> 0])
    /\ UNCHANGED <<op, args, engineVars>>

\* a check that notices missing embeddings only
CountMismatchFewerOnly(embeddings, all_chunks) == Len(embeddings) < Len(all_chunks)
\* line 215: the embeddings do not pair up with the chunks
CountMismatch(embeddings, all_chunks) == Len(embeddings) # Len(all_chunks)

RECURSIVE BuildDocs(_, _, _, _, _, _, _)
\* documents built from the embeddings one place further on
BuildDocsShifted(items, chunk_map, all_chunks, embeddings, source_id, ix, cursor) ==
    IF ix > Len(items) THEN <<>>
    ELSE LET cnt == chunk_map[ix]
             these_chunks == Slice(all_chunks, cursor, cursor + cnt)
             these_vecs == Slice(embeddings, cursor + 1, cursor + 1 + cnt)
             item_source_id == MakeItemSourceId(items[ix], ix - 1, source_id)
         IN MakeSearchDocuments(item_source_id, these_chunks, these_vecs)
            \o BuildDocs(items, chunk_map, all_chunks, embeddings, source_id,
                         ix + 1, cursor + cnt)
\* lines 229-279: the documents of the items from position ix (1-based) on,
\* cursor chunks having been used by the items before
BuildDocs(items, chunk_map, all_chunks, embeddings, source_id, ix, cursor) ==
    IF ix > Len(items) THEN <<>>
    ELSE LET cnt == chunk_map[ix]
             these_chunks == Slice(all_chunks, cursor, cursor + cnt)
             these_vecs == Slice(embeddings, cursor, cursor + cnt)
             item_source_id == MakeItemSourceId(items[ix], ix - 1, source_id)
         IN MakeSearchDocuments(item_source_id, these_chunks, these_vecs)
            \o BuildDocs(items, chunk_map, all_chunks, embeddings, source_id,
                         ix + 1, cursor + cnt)

\* lines 213-319, after the batch loop: the count check, the documents, the
\* upload and the result
BuildAndUpload ==
    /\ op = "ingest_documents" /\ pc = "embed"
    /\ locals.i >= Len(locals.all_chunks)
    /\ pc' = "done"
    /\ LET all_chunks == locals.all_chunks
           embeddings == locals.embeddings
           docs == BuildDocs(args.items, locals.chunk_map, all_chunks, embeddings,
                             args.source_id, 1, 0)
       IN IF CountMismatch(embeddings, all_chunks)
          THEN /\ result' = IngestionResult(
                      [success |-> False, documents_processed |-> Len(args.items),
                       chunks_created |-> Len(all_chunks),
                       errors |-> <<"Embedding count mismatch: expected "
                                      \o ToString(Len(all_chunks)) \o ", got "
                                      \o ToString(Len(embeddings))>>,
                       documents_uploaded |-> 0])
               /\ UNCHANGED <<log, locals>>
          ELSE /\ locals' = [locals EXCEPT !.docs = docs]
               /\ \/ \E uploaded_count \in UpsertCounts(docs) :
                       /\ log' = Append(log, Call("store", "upsert_documents", docs,
                                                  TRUE, uploaded_count))
                       /\ result' = IngestionResult(
                              [success |-> True,
                               documents_processed |-> Len(args.items),
                               chunks_created |-> Len(all_chunks),
                               documents_uploaded |-> Len(docs)])
                  \/ /\ log' = Append(log, Call("store", "upsert_documents", docs,
                                                FALSE, ProviderError("vector store")))
                     /\ result' = IngestionResult(
                            [success |-> False,
                             documents_processed |-> Len(args.items),
                             chunks_created |-> Len(all_chunks),
                             errors |-> <<"Vector store upload failed: "
                                            \o ProviderError("vector store").msg>>,
                             documents_uploaded |-> 0])
    /\ UNCHANGED <<op, args, engineVars>>

(***************************************************************************)
(* DocumentIngester.ingest_blueprints                                      *)
(*   pc  "collect" (line 340), "embed" (line 355: the next batch starts at *)
(*       0-based position locals.i), "done"                                *)
(***************************************************************************)
KeyError(k) == Exc("KeyError", "'" \o k \o "'", <<k>>)
\* line 344: the blueprint as text; json.dumps(None) is "null".  The
\* blueprints of the model are texts or absent.
BlueprintJson(item) ==
    LET blueprint == GetOr(item, "blueprint", NoneV)
    IN CASE IsStr(blueprint) -> blueprint.s
         [] blueprint = NoneV -> "null"

\* lines 340-352: ids, descriptions and metadata are collected; an item
\* without id or description raises KeyError
BlueprintsCollect ==
    /\ op = "ingest_blueprints" /\ pc = "collect"
    /\ LET blueprints == args.blueprints
           bad == {i \in 1..Len(blueprints) :
                      ~Has(blueprints[i], "id") \/ ~Has(blueprints[i], "description")}
           first == CHOOSE i \in bad : \A j \in bad : i <= j
       IN IF bad # {}
          THEN /\ result' = Raised(KeyError(IF ~Has(blueprints[first], "id")
                                            THEN "id" ELSE "description"))
               /\ pc' = "done"
               /\ locals' = locals
          ELSE /\ locals' =
                    [ids |-> [i \in 1..Len(blueprints) |-> Get(blueprints[i], "id").s],
                     descriptions |->
                         [i \in 1..Len(blueprints) |-> Get(blueprints[i], "description").s],
                     meta_list |->
                         [i \in 1..Len(blueprints) |->
                             [description |-> Get(blueprints[i], "description").s,
                              blueprint_json |-> BlueprintJson(blueprints[i])]],
                     embeddings |-> <<>>, i |-> 0, docs |-> <<>>]
               /\ pc' = "embed"
               /\ result' = result
    /\ UNCHANGED <<op, args, log, engineVars>>

\* lines 355-356: one pass of the batch loop, outside any try
BlueprintsEmbedBatch ==
    /\ op = "ingest_blueprints" /\ pc = "embed"
    /\ locals.i < Len(locals.descriptions)
    /\ LET batch == Batch(locals.descriptions, locals.i, args.batch_size)
           returned == VectorsReturned(CallsTo("embedder", "embed"))
       IN \/ \E n \in EmbedCounts(batch) :
               LET batch_embeddings == Vectors(returned, n)
               IN /\ log' = Append(log, Call("embedder", "embed", batch, TRUE,
                                             batch_embeddings))
                  /\ locals' = [locals EXCEPT
                                  !.embeddings = locals.embeddings \o batch_embeddings,
                                  !.i = locals.i + args.batch_size]
                  /\ pc' = pc /\ result' = result
          \/ /\ log' = Append(log, Call("embedder", "embed", batch, FALSE,
                                        ProviderError("embedding service")))
             /\ locals' = locals
             /\ pc' = "done"
             /\ result' = Raised(ProviderError("embedding service"))
    /\ UNCHANGED <<op, args, engineVars>>

\* lines 358-391: one document per (id, description, embedding, metadata)
\* tuple of zip, the upload inside try/finally, and the result
BlueprintsUpload ==
    /\ op = "ingest_blueprints" /\ pc = "embed"
    /\ locals.i >= Len(locals.descriptions)
    /\ pc' = "done"
    /\ LET docs == [j \in 1..Min(Len(locals.ids), Len(locals.embeddings)) |->
                       [id |-> locals.ids[j],
                        source_id |-> "blueprint_context",
                        chunk_id |-> 0,
                        chunk |-> locals.descriptions[j],
                        chunk_vector |-> locals.embeddings[j],
                        metadata |-> locals.meta_list[j]]]
           done(uploaded) ==
               IngestionResult([success |-> uploaded,
                                documents_processed |-> Len(args.blueprints),
                                chunks_created |-> Len(locals.descriptions),
                                documents_uploaded |-> Len(docs)])
       IN /\ locals' = [locals EXCEPT !.docs = docs]
          /\ IF docs = <<>>
             THEN log' = log /\ result' = done(0)
             ELSE \/ \E uploaded \in UpsertCounts(docs) :
                       /\ log' = Append(log, Call("store", "upsert_documents", docs,
                                                  TRUE, uploaded))
                       /\ result' = done(uploaded)
                  \/ /\ log' = Append(log, Call("store", "upsert_documents", docs,
                                                FALSE, ProviderError("vector store")))
                     /\ result' = Raised(ProviderError("vector store"))
    /\ UNCHANGED <<op, args, engineVars>>

(***************************************************************************)
(* SemanticSearcher.search and RAGPipeline.answer_question                 *)
(*   pc  "index" (semantic_searcher.py line 117), "embed" (line 123),      *)
(*       "vector" (line 134), "answer" (rag_pipeline.py line 138), "done"  *)
(***************************************************************************)
SearchError(msg) == Exc("SearchError", msg, <<>>)
GenerationError(msg) == Exc("GenerationError", msg, <<>>)

\* json.loads on the metadata texts of the model
JsonLoads(text) ==
    CASE text = "{}" -> [ok |-> TRUE, value |-> <<>>]
      [] text = "{\"tags\": \"space\"}" ->
           [ok |-> TRUE, value |-> <<Pair("tags", Str("space"))>>]
      [] OTHER -> [ok |-> FALSE, value |-> <<>>]
\* SearchResult.from_dict (src/rag/models/types.py)
FromDict(data) ==
    LET metadata_json == GetOr(data, "metadata_json", Str("{}"))
        metadata ==
            IF IsStr(metadata_json) /\ metadata_json.s # ""
            THEN IF JsonLoads(metadata_json.s).ok
                 THEN JsonLoads(metadata_json.s).value
                 ELSE <<Pair("raw", metadata_json), Pair("parse_error", Num(True))>>
            ELSE IF Truthy(metadata_json) THEN metadata_json.m ELSE <<>>
    IN [id |-> GetOr(data, "id", Str("")).s,
        source_id |-> GetOr(data, "source_id", Str("")).s,
        chunk |-> GetOr(data, "chunk", Str("")).s,
        metadata |-> metadata]

\* _build_filter(namespace, extra_filter); None is modelled by NoneV
BuildFilter(namespace, extra_filter) ==
    LET parts == (IF Truthy(namespace)
                  THEN <<"namespace eq '" \o namespace.s \o "'">> ELSE <<>>)
                 \o (IF Truthy(extra_filter)
                     THEN <<"(" \o extra_filter.s \o ")">> ELSE <<>>)
    IN CASE parts = <<>> -> NoneV
         [] Len(parts) = 1 -> Str(parts[1])
         [] OTHER -> Str(parts[1] \o " and " \o parts[2])

\* the documents the vector store returns
RawResults ==
    {<<Pair("id", Str("misc-text-0-0")), Pair("source_id", Str("misc-text-0")),
       Pair("chunk", Str("Apollo 11 landed in 1969")),
       Pair("metadata_json", Str("{\"tags\": \"space\"}"))>>,
     <<Pair("id", Str("x-1")), Pair("chunk", Str("Moon facts")),
       Pair("metadata_json", Str("not json"))>>,
     <<Pair("id", Str("x-2")), Pair("source_id", Str("x")),
       Pair("chunk", Str("Tides")), Pair("metadata_json", NoneV)>>}
RawResultLists(top_k) == UNION {[1..n -> RawResults] : n \in 0..Min(top_k, MaxHits)}

InSearch == op \in {"search", "answer_question"}
\* how a search that ends hands over: search returns or raises to its
\* caller; inside answer_question a raise leaves answer_question too and a
\* returned list goes on to line 138
SearchRaises(e) == /\ result' = Raised(e) /\ pc' = "done" /\ locals' = locals
SearchReturns(results) ==
    /\ locals' = [results |-> results]
    /\ IF op = "search"
       THEN result' = Returned(results) /\ pc' = "done"
       ELSE result' = result /\ pc' = "answer"

\* an index check that lets the search go on without an index
SearchIndexCheckLenient ==
    /\ InSearch /\ pc = "index"
    /\ \/ /\ log' = Append(log, Call("index_manager", "index_exists", <<>>, TRUE, TRUE))
          /\ pc' = "embed" /\ result' = result /\ locals' = locals
       \/ /\ log' = Append(log, Call("index_manager", "index_exists", <<>>, TRUE, FALSE))
          /\ pc' = "embed" /\ result' = result /\ locals' = locals
       \/ /\ log' = Append(log, Call("index_manager", "index_exists", <<>>, FALSE,
                                     ProviderError("index_exists")))
          /\ SearchRaises(ProviderError("index_exists"))
    /\ UNCHANGED <<op, args, engineVars>>
\* semantic_searcher.py lines 117-119
SearchIndexCheck ==
    /\ InSearch /\ pc = "index"
    /\ \/ /\ log' = Append(log, Call("index_manager", "index_exists", <<>>, TRUE, TRUE))
          /\ pc' = "embed" /\ result' = result /\ locals' = locals
       \/ /\ log' = Append(log, Call("index_manager", "index_exists", <<>>, TRUE, FALSE))
          /\ SearchRaises(SearchError("Search index does not exist. Returning empty results."))
       \/ /\ log' = Append(log, Call("index_manager", "index_exists", <<>>, FALSE,
                                     ProviderError("index_exists")))
          /\ SearchRaises(ProviderError("index_exists"))
    /\ UNCHANGED <<op, args, engineVars>>

\* semantic_searcher.py lines 122-130
SearchEmbed ==
    /\ InSearch /\ pc = "embed"
    /\ \/ \E n \in EmbedCounts(<<args.query>>) :
            /\ log' = Append(log, Call("embedder", "embed", <<args.query>>, TRUE,
                                       Vectors(0, n)))
            /\ IF n = 0
               THEN SearchReturns(<<>>)
               ELSE /\ pc' = "vector" /\ result' = result
                    /\ locals' = [query_vector |-> Vectors(0, n)[1]]
       \/ /\ log' = Append(log, Call("embedder", "embed", <<args.query>>, FALSE,
                                     ProviderError("embedding service")))
          /\ SearchRaises(SearchError("Query embedding failed: "
                                        \o ProviderError("embedding service").msg))
    /\ UNCHANGED <<op, args, engineVars>>

\* semantic_searcher.py lines 134-151
SearchVector ==
    /\ InSearch /\ pc = "vector"
    /\ LET request == [query_vector |-> locals.query_vector, top_k |-> args.top_k,
                       filter_expr |-> BuildFilter(args.namespace, args.filter_expr)]
       IN \/ \E raw_results \in RawResultLists(args.top_k) :
               /\ log' = Append(log, Call("store", "vector_search", request, TRUE,
                                          raw_results))
               /\ SearchReturns([j \in 1..Len(raw_results) |-> FromDict(raw_results[j])])
          \/ /\ log' = Append(log, Call("store", "vector_search", request, FALSE,
                                        ProviderError("vector store")))
             /\ SearchRaises(SearchError("Vector search failed: "
                                           \o ProviderError("vector store").msg))
    /\ UNCHANGED <<op, args, engineVars>>

\* "\n\n".join(f"[Source: {r.source_id}]\n{r.chunk}" for r in results)
RECURSIVE JoinContext(_)
JoinContext(results) ==
    IF results = <<>> THEN ""
    ELSE "[Source: " \o Head(results).source_id \o "]\n" \o Head(results).chunk
         \o (IF Len(results) > 1 THEN "\n\n" ELSE "") \o JoinContext(Tail(results))
NoAnswer == "I couldn't find any relevant information to answer your question."
\* answers whatever the search found
NoResultsNeverStops(results) == FALSE
\* rag_pipeline.py line 138: not results
NoResults(results) == results = <<>>

\* rag_pipeline.py lines 138-148
AnswerGenerate ==
    /\ op = "answer_question" /\ pc = "answer"
    /\ pc' = "done"
    /\ IF NoResults(locals.results)
       THEN /\ result' = Returned(NoAnswer)
            /\ log' = log
       ELSE LET request == [question |-> args.question,
                            context |-> JoinContext(locals.results),
                            system_prompt |-> args.system_prompt]
            IN \/ \E t \in GenTexts :
                    /\ log' = Append(log, Call("generator", "generate", request, TRUE, t))
                    /\ result' = Returned(t)
               \/ /\ log' = Append(log, Call("generator", "generate", request, FALSE,
                                             GenerationError("Answer generation failed: timeout")))
                  /\ result' = Raised(GenerationError("Answer generation failed: timeout"))
    /\ UNCHANGED <<op, args, locals, engineVars>>

(***************************************************************************)
(* RAGPipeline's managed scope: __aenter__, the body of the async with,    *)
(* __aexit__ and close (rag_pipeline.py lines 80-92).                      *)
(*                                                                         *)
(* The providers built for a pipeline are the four that __init__ keeps     *)
(* (lines 37-63) and, when the wiring of di/container.py supplies one      *)
(* (lines 73-79 and 115), a content-safety provider; args.content_safety   *)
(* tells whether there is one.  __init__ has no parameter for it and keeps *)
(* no reference to it.                                                     *)
(*   pc  "body" (inside the async with), "close" (line 88: the next client *)
(*       is at position locals.i of the list), "done"                      *)
(***************************************************************************)
\* line 88: the clients close() goes through
Clients == <<"embedder", "store", "llm", "index_manager">>
\* the providers built for the pipeline
BuiltProviders(a) ==
    {Clients[i] : i \in 1..Len(Clients)}
      \cup (IF a.content_safety THEN {"content_safety"} ELSE {})

\* the body of the async with ends, normally or by raising; __aexit__
\* (lines 83-84) then calls close()
ScopeBody ==
    /\ op = "scope" /\ pc = "body"
    /\ \E raised \in BOOLEAN : locals' = [i |-> 1, body_raised |-> raised]
    /\ pc' = "close"
    /\ UNCHANGED <<op, args, log, result, engineVars>>

\* lines 89-92: the next client is closed; an exception of its close is
\* swallowed
CloseClient ==
    /\ op = "scope" /\ pc = "close"
    /\ locals.i <= Len(Clients)
    /\ \/ log' = Append(log, Call(Clients[locals.i], "close", <<>>, TRUE, NoneV))
       \/ log' = Append(log, Call(Clients[locals.i], "close", <<>>, FALSE,
                                  ProviderError(Clients[locals.i])))
    /\ locals' = [locals EXCEPT !.i = locals.i + 1]
    /\ UNCHANGED <<op, pc, args, result, engineVars>>

\* close() and __aexit__ return None: the scope is left, and an exception
\* of the body goes on to the caller
ScopeExit ==
    /\ op = "scope" /\ pc = "close"
    /\ locals.i > Len(Clients)
    /\ pc' = "done"
    /\ result' = IF locals.body_raised
                 THEN Raised(Exc("RuntimeError", "raised in the body", <<>>))
                 ELSE Returned(NoneV)
    /\ UNCHANGED <<op, args, log, locals, engineVars>>

(***************************************************************************)
(* AzureContentSafety.moderate_text                                        *)
(* (src/rag/implementations/azure_content_safety.py lines 57-131).         *)
(* The tenacity decorator of lines 57-61 calls the function again only     *)
(* when an exception leaves it.  The emoji that open the recommendation    *)
(* texts are left out.                                                     *)
(***************************************************************************)
\* categories_analysis of a response: each category with its severity
Categories == <<"Hate", "Violence">>
Responses == [1..Len(Categories) -> {0, 2, 4}]
RECURSIVE JoinComma(_)
JoinComma(l) ==
    IF l = <<>> THEN ""
    ELSE Head(l) \o (IF Len(l) > 1 THEN ", " ELSE "") \o JoinComma(Tail(l))
Verdict(is_safe, severity_scores, blocked_categories, recommendation) ==
    [is_safe |-> is_safe, severity_scores |-> severity_scores,
     blocked_categories |-> blocked_categories, recommendation |-> recommendation]
\* lines 95-120: the verdict for a response of the service
Analyse(response, severity_threshold) ==
    LET severity_scores ==
            [j \in 1..Len(Categories) |-> Pair(Categories[j], Num(response[j]))]
        blocked_categories ==
            SelectSeq(Categories,
                      LAMBDA c : \E j \in 1..Len(Categories) :
                                     Categories[j] = c /\ response[j] >= severity_threshold)
        is_safe == IF blocked_categories = <<>> THEN True ELSE False
    IN Verdict(is_safe, severity_scores, blocked_categories,
               IF is_safe = True THEN "Content approved"
               ELSE "Blocked: " \o JoinComma(blocked_categories))
\* a handler that lets the service error leave moderate_text
ServiceFailureRaises(e) == Raised(e)
\* lines 122-131: the service call failed
ServiceFailure(e) ==
    Returned([is_safe |-> True, severity_scores |-> <<>>, blocked_categories |-> <<>>,
              recommendation |-> "Moderation service unavailable: " \o e.msg,
              error |-> e.msg])

\* one call of moderate_text
ModerateText ==
    /\ op = "moderate_text" /\ pc = "moderate"
    /\ pc' = "done"
    /\ IF ~args.enabled \/ ~args.client
       THEN /\ result' = Returned(Verdict(True, <<>>, <<>>, "Moderation disabled"))
            /\ log' = log
       ELSE IF args.text = "" \/ Strip(args.text) = ""
       THEN /\ result' = Returned(Verdict(True, <<>>, <<>>, "No content to moderate"))
            /\ log' = log
       ELSE \/ \E response \in Responses :
                 /\ log' = Append(log, Call("content_safety_client", "analyze_text",
                                            args.text, TRUE, response))
                 /\ result' = Returned(Analyse(response, args.severity_threshold))
            \/ /\ log' = Append(log, Call("content_safety_client", "analyze_text",
                                          args.text, FALSE,
                                          ProviderError("content safety service")))
               /\ result' = ServiceFailure(ProviderError("content safety service"))
    /\ UNCHANGED <<op, args, locals, engineVars>>

(***************************************************************************)
(* AzureOpenAILLM.generate                                                 *)
(* (src/rag/implementations/azure_openai_llm.py lines 80-175).             *)
(*   locals.attempt     the attempt of the loop of line 112                *)
(*   locals.last_error  last_error                                         *)
(* A delay of asyncio.sleep is written in tenths of a second.              *)
(***************************************************************************)
\* what one awaited chat.completions.create can do: raise one of the errors
\* the handlers of lines 140-170 tell apart (a timeout of wait_for and any
\* other exception reach the last handler), or answer with a content
AttemptErrors ==
    {Exc("APIConnectionError", "connection failed", <<>>),
     Exc("RateLimitError", "rate limited", <<>>),
     Exc("APIStatusError", "status 503", <<>>),
     Exc("TimeoutError", "", <<>>)}
\* message.content of the first choice; Str("") also stands for a response
\* without choices (lines 128-132)
AttemptContents == {Str(""), Str(" \n"), Str(" ok "), Str("fine"), NoneV}
\* a check of line 135 that only rejects the empty text
BlankOnlyEmpty(content) == content.s = ""
\* line 135: not content.strip()
Blank(content) == Strip(content.s) = ""
\* the factor of the delay after a failed attempt (lines 146, 154, 162, 170)
Backoff(e) ==
    CASE e.type = "APIConnectionError" -> 6
      [] e.type = "RateLimitError" -> 15
      [] e.type = "APIStatusError" -> 8
      [] OTHER -> 6
\* the except clauses of lines 140-170
AttemptFailed(e, calls) ==
    /\ log' = log \o calls
               \o <<Call("asyncio", "sleep", Backoff(e) * locals.attempt, TRUE, NoneV)>>
    /\ locals' = [attempt |-> locals.attempt + 1, last_error |-> e]
    /\ UNCHANGED <<pc, result>>

\* one pass of the loop of lines 112-170
GenerateAttempt ==
    /\ op = "generate" /\ pc = "attempt"
    /\ locals.attempt <= args.retries
    /\ \/ \E e \in AttemptErrors :
            AttemptFailed(e, <<Call("llm_client", "create", args.messages, FALSE, e)>>)
       \/ \E content \in AttemptContents :
            LET call == <<Call("llm_client", "create", args.messages, TRUE, content)>>
            IN IF content = NoneV
               THEN AttemptFailed(Exc("AttributeError",
                        "'NoneType' object has no attribute 'strip'", <<>>), call)
               ELSE IF Blank(content)
               THEN AttemptFailed(Exc("ValueError", "LLM returned empty content", <<>>),
                                  call)
               ELSE /\ log' = log \o call
                    /\ result' = Returned(Strip(content.s))
                    /\ pc' = "done"
                    /\ locals' = locals
    /\ UNCHANGED <<op, args, engineVars>>

\* lines 173-175: the loop ended without a return
GenerateGiveUp ==
    /\ op = "generate" /\ pc = "attempt"
    /\ locals.attempt > args.retries
    /\ result' = Raised(Exc("RuntimeError",
                            "LLM generation failed after " \o ToString(args.retries)
                              \o " retries", <<>>))
    /\ pc' = "done"
    /\ UNCHANGED <<op, args, log, locals, engineVars>>


(***************************************************************************)
(* IndexManager: a sequence of create_index and delete_index calls against *)
(* one search service (src/rag/core/index_manager.py lines 77-253).        *)
(*   locals.present  whether the service holds the index                   *)
(*   locals.history  one record for each finished call: the method, the    *)
(*                   state of the service before and after it, whether it  *)
(*                   sent its create or delete request, whether it         *)
(*                   returned                                              *)
(***************************************************************************)
MaxCalls == 3
HttpResponseError == Exc("HttpResponseError", "service unavailable", <<>>)
\* lines 87-93: the outcomes of index_exists: True, False, or an exception
\* other than ResourceNotFoundError, which leaves index_exists
IndexExistsOutcomes(present) ==
    {[call |-> Call("search_index_client", "get_index", present, FALSE, HttpResponseError),
      raised |-> TRUE, value |-> FALSE],
     IF present
     THEN [call |-> Call("search_index_client", "get_index", present, TRUE, NoneV),
           raised |-> FALSE, value |-> TRUE]
     ELSE [call |-> Call("search_index_client", "get_index", present, FALSE,
                         Exc("ResourceNotFoundError", "index not found", <<>>)),
           raised |-> FALSE, value |-> FALSE]}
\* the service answers a create or delete request: it succeeds, or fails
\* with the index created or deleted or not (a create of an index that is
\* there and a delete of one that is not only fail)
RequestOutcomes(method, present) ==
    LET wanted == (method = "create_index")
    IN {[ok |-> FALSE, present |-> p] : p \in {present, wanted}}
         \cup (IF present = wanted THEN {} ELSE {[ok |-> TRUE, present |-> wanted]})
\* a guard that sends the request whatever index_exists said
SendsRequestAlways(method, exists) == TRUE
\* lines 121 and 248: the request is sent unless the early return is taken
SendsRequest(method, exists) ==
    IF method = "create_index" THEN ~exists ELSE exists
Finished(method, sent, returned, after) ==
    /\ locals' = [present |-> after,
                  history |-> Append(locals.history,
                                     [method |-> method, before |-> locals.present,
                                      after |-> after, sent |-> sent,
                                      returned |-> returned])]
    /\ result' = IF returned THEN Returned(NoneV) ELSE Raised(HttpResponseError)
\* one whole call of create_index (lines 95-237) or delete_index (239-253)
IndexCall(method) ==
    /\ op = "index_manager" /\ pc = "call"
    /\ Len(locals.history) < MaxCalls
    /\ \E e \in IndexExistsOutcomes(locals.present) :
         IF e.raised
         THEN /\ log' = Append(log, e.call)
              /\ Finished(method, FALSE, FALSE, locals.present)
         ELSE IF ~SendsRequest(method, e.value)
         THEN /\ log' = Append(log, e.call)
              /\ Finished(method, FALSE, TRUE, locals.present)
         ELSE \E r \in RequestOutcomes(method, locals.present) :
                /\ log' = log \o <<e.call,
                                   Call("search_index_client", method, locals.present,
                                        r.ok, NoneV)>>
                /\ Finished(method, TRUE, r.ok, r.present)
    /\ UNCHANGED <<op, pc, args, engineVars>>
CreateIndex == IndexCall("create_index")
DeleteIndex == IndexCall("delete_index")


(***************************************************************************)
(* ResearcherAgent.execute with the results of its search and the prompt   *)
(* it builds in view (src/rag/agents/researcher.py lines 23-66).           *)
(***************************************************************************)
\* "\n\n---\n\n".join(sanitized_chunks)
RECURSIVE JoinSources(_)
JoinSources(chunks) ==
    IF chunks = <<>> THEN ""
    ELSE Head(chunks) \o (IF Len(chunks) > 1 THEN "\n\n---\n\n" ELSE "")
           \o JoinSources(Tail(chunks))
\* lines 38-44: the chunks sanitize_input returns
SanitizedChunks(results) ==
    LET kept == SelectSeq(results, LAMBDA r : ~SanitizeRejects(r.chunk))
    IN [j \in 1..Len(kept) |-> kept[j].chunk]
\* one whole call of execute for a message with a topic
ResearcherRun ==
    /\ op = "researcher" /\ pc = "execute"
    /\ pc' = "done"
    /\ \E so \in SearchOutcomes(3) :
         LET searched == Call("searcher", "search", args.topic, so.ok,
                              IF so.ok THEN so.results ELSE so.exc)
             sanitized_chunks == SanitizedChunks(so.results)
             generate(go) ==
                 Call("generator", "generate",
                      [question |-> "Topic: " \o args.topic,
                       context |-> JoinSources(sanitized_chunks)],
                      go.ok, IF go.ok THEN go.text ELSE go.exc)
         IN IF ~so.ok
            THEN /\ log' = <<searched>>
                 /\ result' = Raised(so.exc)
            ELSE IF sanitized_chunks = <<>>
            THEN /\ log' = <<searched>>
                 /\ result' = Returned(
                        [sender |-> "Researcher",
                         content |-> "Could not generate a reliable answer as retrieved data was suspect."])
            ELSE \E go \in GenOutcomes :
                   /\ log' = <<searched, generate(go)>>
                   /\ result' = IF go.ok
                                THEN Returned([sender |-> "Researcher",
                                               content |-> [facts |-> go.text]])
                                ELSE Raised(go.exc)
    /\ UNCHANGED <<op, args, locals, engineVars>>


(***************************************************************************)
(* AzureOpenAIEmbedder.embed under its tenacity decorator                  *)
(* (src/rag/implementations/azure_openai_embedder.py lines 71-122): the    *)
(* decorator calls the whole function again when an exception leaves it,   *)
(* three times at most.                                                    *)
(*   locals.attempt           the attempt under way                        *)
(*   locals.embedding_tokens  the tracker's embedding total                *)
(***************************************************************************)
\* line 72: stop_after_attempt(3)
EmbedAttempts == 3
\* count_tokens (tiktoken, outside the repository): the token counts of the
\* texts of the model
CountTokens(text) == CASE text = "alpha beta" -> 2 [] text = "gamma" -> 1 [] OTHER -> 0
RECURSIVE SumTokens(_)
\* tokens_utils.py line 49
SumTokens(texts) ==
    IF texts = <<>> THEN 0 ELSE CountTokens(Head(texts)) + SumTokens(Tail(texts))
\* one run of the body of embed (lines 97-122)
EmbedAttempt ==
    /\ op = "embed" /\ pc = "attempt"
    /\ IF args.texts = <<>>
       THEN /\ result' = Returned(<<>>)
            /\ pc' = "done"
            /\ UNCHANGED <<log, locals>>
       ELSE LET tracked == IF args.token_tracker
                           THEN <<Call("token_tracker", "add_embedding_usage",
                                       args.texts, TRUE, SumTokens(args.texts))>>
                           ELSE <<>>
                tokens == IF args.token_tracker THEN SumTokens(args.texts) ELSE 0
            IN \/ /\ log' = log \o tracked
                             \o <<Call("embeddings_client", "create", args.texts, TRUE,
                                       Vectors(0, Len(args.texts)))>>
                  /\ locals' = [locals EXCEPT !.embedding_tokens = @ + tokens]
                  /\ result' = Returned(Vectors(0, Len(args.texts)))
                  /\ pc' = "done"
               \/ /\ log' = log \o tracked
                             \o <<Call("embeddings_client", "create", args.texts, FALSE,
                                       ProviderError("embedding service"))>>
                  /\ IF locals.attempt < EmbedAttempts
                     THEN /\ locals' = [attempt |-> locals.attempt + 1,
                                        embedding_tokens |-> locals.embedding_tokens + tokens]
                          /\ UNCHANGED <<result, pc>>
                     ELSE /\ locals' = [locals EXCEPT !.embedding_tokens = @ + tokens]
                          /\ result' = Raised(Exc("RetryError", "", <<>>))
                          /\ pc' = "done"
    /\ UNCHANGED <<op, args, engineVars>>


(***************************************************************************)
(* The calls of the core layer.                                            *)
(***************************************************************************)
\* items handed to ingest_documents: a text of two chunks under the small
\* configuration, a blank text, a dict holding a text, and a number (a type
\* the normaliser does not know)
IngestItems ==
    {Str("abcdefg"), Str("  "), Map(<<Pair("text", Str("hi"))>>), Num(42)}
ItemLists == UNION {[1..n -> IngestItems] : n \in 0..MaxItems}
\* character-based chunking: a small configuration and the default one
ChunkingConfigs ==
    {[use_token_chunking |-> FALSE, chunk_size |-> 4, overlap |-> 1],
     [use_token_chunking |-> FALSE, chunk_size |-> 4000, overlap |-> 200]}
IngestDocumentsArgs ==
    [items : ItemLists, chunking_config : ChunkingConfigs,
     batch_size : {2}, source_id : {"misc"}]

\* blueprints handed to ingest_blueprints: a complete one, one without the
\* blueprint field, one without id
Blueprints ==
    {<<Pair("id", Str("bp-1")), Pair("description", Str("tense narrative")),
       Pair("blueprint", Str("{\"tone\": \"tense\"}"))>>,
     <<Pair("id", Str("bp-2")), Pair("description", Str("neutral report"))>>,
     <<Pair("description", Str("a blueprint without id"))>>}
IngestBlueprintsArgs ==
    [blueprints : UNION {[1..n -> Blueprints] : n \in 0..MaxItems}, batch_size : {1}]
\* search(query, namespace=None, top_k=5, filter_expr=None)
SearchArgs ==
    [query : {"When did Apollo 11 land?"}, namespace : {NoneV, Str("KnowledgeStore")},
     top_k : {1, 5}, filter_expr : {NoneV, Str("tags eq 'space'")}]
\* answer_question(question, namespace=None, top_k=5, system_prompt=None);
\* query and filter_expr are what it hands to search
AnswerArgs ==
    [question : {"When did Apollo 11 land?"}, query : {"When did Apollo 11 land?"},
     namespace : {NoneV, Str("KnowledgeStore")}, top_k : {1, 5},
     filter_expr : {NoneV}, system_prompt : {NoneV}]
\* generate(messages) on a provider built with retries attempts (default 3)
GenerateArgs == [messages : {"hello"}, retries : {0, 1, 3}]
\* an index manager facing a service that holds the index or not
IndexManagerArgs == [present : BOOLEAN]
\* execute({"content": {"topic": topic}})
ResearcherArgs == [topic : {"Apollo 11"}]
\* embed(texts) on an embedder with or without a token tracker
EmbedArgs == [texts : {<<>>, <<"alpha beta", "gamma">>}, token_tracker : BOOLEAN]
\* the managed scope of a pipeline, with or without a content-safety provider
ScopeArgs == [content_safety : BOOLEAN]
\* moderate_text(text) on a provider that is enabled or not, with or without
\* a client, with the default threshold or a higher one
ModerateArgs ==
    [text : {"a harmless sentence", "  ", ""}, enabled : BOOLEAN, client : BOOLEAN,
     severity_threshold : {2, 4}]

CoreInit ==
    /\ op \in {"ingest_documents", "ingest_blueprints", "search", "answer_question",
               "generate",
               "index_manager",
               "researcher",
               "embed",
               "scope", "moderate_text"}
    /\ pc = CASE op = "ingest_documents" -> "index"
              [] op = "ingest_blueprints" -> "collect"
              [] op = "search" -> "index"
              [] op = "answer_question" -> "index"
              [] op = "generate" -> "attempt"
              [] op = "index_manager" -> "call"
              [] op = "researcher" -> "execute"
              [] op = "embed" -> "attempt"
              [] op = "scope" -> "body"
              [] op = "moderate_text" -> "moderate"
    /\ args \in CASE op = "ingest_documents" -> IngestDocumentsArgs
                  [] op = "ingest_blueprints" -> IngestBlueprintsArgs
                  [] op = "search" -> SearchArgs
                  [] op = "answer_question" -> AnswerArgs
                  [] op = "generate" -> GenerateArgs
                  [] op = "index_manager" -> IndexManagerArgs
                  [] op = "researcher" -> ResearcherArgs
                  [] op = "embed" -> EmbedArgs
                  [] op = "scope" -> ScopeArgs
                  [] op = "moderate_text" -> ModerateArgs
    /\ log = <<>>
    /\ locals = CASE op = "generate" -> [attempt |-> 1, last_error |-> NoExc]
                  [] op = "index_manager" -> [present |-> args.present, history |-> <<>>]
                  [] op = "embed" -> [attempt |-> 1, embedding_tokens |-> 0]
                  [] OTHER -> <<>>
    /\ result = NoResult
    /\ plan = <<>>
    /\ idx = 1
    /\ state = <<>>
    /\ mcp_input = <<>>
    /\ mcp_output = NoOutcome
    /\ invoked = <<>>
    /\ llm = NoLlm

CoreNext ==
    \/ EnsureIndex \/ NormalizeAndChunk \/ EmbedBatch \/ BuildAndUpload
    \/ BlueprintsCollect \/ BlueprintsEmbedBatch \/ BlueprintsUpload
    \/ SearchIndexCheck \/ SearchEmbed \/ SearchVector \/ AnswerGenerate
    \/ GenerateAttempt \/ GenerateGiveUp
    \/ CreateIndex \/ DeleteIndex
    \/ ResearcherRun
    \/ EmbedAttempt
    \/ ScopeBody \/ CloseClient \/ ScopeExit \/ ModerateText

CoreSpec == CoreInit /\ [][CoreNext]_vars

(***************************************************************************)
(* Properties of the core layer.                                           *)
(***************************************************************************)
\* no call of the index manager has failed
IndexCallsOk ==
    \A i \in 1..Len(log) : log[i].target = "index_manager" => log[i].ok
\* ingest_documents has ended, having got past the index check
IngestEnded == op = "ingest_documents" /\ pc = "done" /\ IndexCallsOk

\* C12: ingest_documents, when the items yield no chunk at all (an empty
\* list included), returns a result with success = False and a non-empty
\* errors list, and calls neither embedder.embed nor store.upsert_documents.
C12_NoChunksFailedResult ==
    (IngestEnded /\ locals.all_chunks = <<>>)
        => /\ result.kind = "return"
           /\ result.value.success = False
           /\ result.value.errors # <<>>
           /\ CallsTo("embedder", "embed") = <<>>
           /\ CallsTo("store", "upsert_documents") = <<>>

\* the batch loop of ingest_documents has run to its end, no embed call
\* having failed, and the call has ended
EmbeddingDone ==
    /\ IngestEnded
    /\ locals.all_chunks # <<>>
    /\ locals.i >= Len(locals.all_chunks)
    /\ \A i \in 1..Len(log) : log[i].ok

\* C13: when the embedder has returned, over all batches, a number of
\* vectors other than the number of chunks, ingest_documents returns a
\* failed result whose error names the expected and the actual count, with
\* documents_uploaded = 0, and store.upsert_documents is never called.
C13_CountMismatchFails ==
    (/\ EmbeddingDone
     /\ VectorsReturned(CallsTo("embedder", "embed")) # Len(locals.all_chunks))
        => /\ result.kind = "return"
           /\ result.value.success = False
           /\ result.value.documents_uploaded = 0
           /\ \E k \in 1..Len(result.value.errors) :
                 /\ Contains(result.value.errors[k],
                             "expected " \o ToString(Len(locals.all_chunks)))
                 /\ Contains(result.value.errors[k],
                             "got " \o ToString(VectorsReturned(CallsTo("embedder", "embed"))))
           /\ CallsTo("store", "upsert_documents") = <<>>
C13_Witness ==
    /\ EmbeddingDone
    /\ Len(CallsTo("embedder", "embed")) = 2
    /\ VectorsReturned(CallsTo("embedder", "embed")) < Len(locals.all_chunks)
    /\ result.kind = "return"


\* C14: ingest_documents and ingest_blueprints end by returning a result,
\* never by raising, whatever the providers do; when a provider call has
\* failed the result has success = False and a non-empty errors list.
C14_IngestionNeverRaises ==
    (op \in {"ingest_documents", "ingest_blueprints"} /\ pc = "done")
        => /\ result.kind = "return"
           /\ (\E i \in 1..Len(log) : ~log[i].ok)
                 => /\ result.value.success = False
                    /\ result.value.errors # <<>>


\* the number of chunks of the first i items
RECURSIVE ChunksUpTo(_, _)
ChunksUpTo(chunk_map, i) ==
    IF i = 0 THEN 0 ELSE chunk_map[i] + ChunksUpTo(chunk_map, i - 1)
\* the item (1-based) the k-th chunk comes from
ItemOfChunk(chunk_map, k) ==
    CHOOSE i \in 1..Len(chunk_map) :
        ChunksUpTo(chunk_map, i - 1) < k /\ k <= ChunksUpTo(chunk_map, i)
\* ingest_documents has returned success = True
IngestSucceeded ==
    IngestEnded /\ result.kind = "return" /\ result.value.success = True
\* the documents handed to the upsert_documents call of this run
UpsertedDocs == CallsTo("store", "upsert_documents")[1].arg

\* C15: in a successful ingest_documents run there is one document per chunk;
\* the k-th document handed to upsert_documents holds the k-th chunk (items
\* in order, each item's chunks in order) and the k-th vector the embedder
\* returned, and its chunk_id is the chunk's 0-based index within its item.
C15_DocumentsFollowChunkOrder ==
    IngestSucceeded =>
        /\ Len(CallsTo("store", "upsert_documents")) = 1
        /\ Len(UpsertedDocs) = Len(locals.all_chunks)
        /\ \A k \in 1..Len(UpsertedDocs) :
              LET i == ItemOfChunk(locals.chunk_map, k)
                  j == k - ChunksUpTo(locals.chunk_map, i - 1)
                  chunks == ChunkText(FileToTextContent(args.items[i]),
                                      args.chunking_config.chunk_size,
                                      args.chunking_config.overlap)
              IN /\ UpsertedDocs[k].chunk = chunks[j]
                 /\ UpsertedDocs[k].chunk = locals.all_chunks[k]
                 /\ UpsertedDocs[k].chunk_vector = k
                 /\ UpsertedDocs[k].chunk_id = j - 1
C15_Witness ==
    /\ IngestSucceeded
    /\ Len(args.items) = 2
    /\ Len(CallsTo("embedder", "embed")) = 2
    /\ Len(UpsertedDocs) >= 3
    /\ UpsertedDocs[3].chunk_id = 0


\* C16: when ingest_documents returns success = True, documents_uploaded is
\* the count upsert_documents returned, the number of documents the vector
\* store confirmed as written.
C16_UploadedIsConfirmedCount ==
    IngestSucceeded =>
        result.value.documents_uploaded = CallsTo("store", "upsert_documents")[1].ret


\* index_exists() has reported false to the search
IndexReportedMissing ==
    /\ InSearch /\ Len(log) >= 1
    /\ log[1].method = "index_exists" /\ log[1].ok /\ log[1].ret = FALSE

\* C17: when index_exists() reports false, search raises SearchError and
\* calls neither the embedder nor the vector store.
C17_MissingIndexRaisesSearchError ==
    IndexReportedMissing
        => /\ pc = "done"
           /\ result.kind = "raise"
           /\ result.exc.type = "SearchError"
           /\ CallsTo("embedder", "embed") = <<>>
           /\ CallsTo("store", "vector_search") = <<>>
C17_Witness ==
    op = "search" /\ IndexReportedMissing /\ result.kind = "raise"

\* the search inside answer_question has returned its results
SearchReturned == op = "answer_question" /\ pc = "done" /\ result.kind # "none"
                  /\ (\A i \in 1..Len(log) : log[i].target # "generator" => log[i].ok)
                  /\ ~IndexReportedMissing

\* C18: answer_question returns exactly the no-information sentence when the
\* search returned no result, without calling the generator; with at least
\* one result it calls generator.generate exactly once.
C18_NoResultsNoGeneration ==
    SearchReturned =>
        IF locals.results = <<>>
        THEN /\ result.kind = "return"
             /\ result.value = NoAnswer
             /\ CallsTo("generator", "generate") = <<>>
        ELSE Len(CallsTo("generator", "generate")) = 1
C18_Witness ==
    /\ SearchReturned
    /\ Len(CallsTo("store", "vector_search")) = 1
    /\ locals.results = <<>>
    /\ result.kind = "return"
    /\ result.value = NoAnswer


\* C19: once the managed scope of a pipeline has been left, normally or
\* through an exception of its body, close has been called on every provider
\* built for the pipeline (the embedder, the vector store, the chat provider,
\* the index manager and, when there is one, the content-safety provider),
\* whichever of these calls failed, and no failure of a close has reached
\* the caller.
C19_ScopeExitClosesEveryProvider ==
    (op = "scope" /\ pc = "done") =>
        /\ \A p \in BuiltProviders(args) : CallsTo(p, "close") # <<>>
        /\ \/ result.kind = "return"
           \/ /\ locals.body_raised
              /\ result = Raised(Exc("RuntimeError", "raised in the body", <<>>))

\* C20: when the call of the moderation service fails, moderate_text returns
\* (it does not raise) a verdict with is_safe true, no blocked category and a
\* recommendation that carries the text of the failure.
C20_ServiceFailed ==
    /\ op = "moderate_text" /\ pc = "done"
    /\ \E i \in 1..Len(log) : log[i].method = "analyze_text" /\ ~log[i].ok
C20_ModerationFailsOpen ==
    C20_ServiceFailed =>
        /\ result.kind = "return"
        /\ result.value.is_safe = True
        /\ result.value.blocked_categories = <<>>
        /\ \E i \in 1..Len(log) :
              /\ log[i].method = "analyze_text" /\ ~log[i].ok
              /\ result.value.recommendation
                   = "Moderation service unavailable: " \o log[i].ret.msg
C20_Witness ==
    /\ C20_ServiceFailed
    /\ result.kind = "return"
    /\ result.value.is_safe = True
    /\ args.enabled /\ args.client


\* C21: moderate_text gives the fail-open verdict only after three failed
\* attempts at the service call: whenever the call has ended with a verdict
\* after a failure of the service, the service was called three times and
\* every one of these calls failed.
C21_FailOpenOnlyAfterThreeAttempts ==
    C20_ServiceFailed =>
        LET attempts == CallsTo("content_safety_client", "analyze_text")
        IN /\ Len(attempts) = 3
           /\ \A i \in 1..Len(attempts) : ~attempts[i].ok


\* C22: generate makes at most `retries` attempts; an attempt that raises,
\* times out or yields no text, an empty text or an all-whitespace text counts
\* as failed and is followed by another attempt while attempts remain;
\* generate returns the trimmed text of the first attempt with a non-blank
\* text, and when every attempt failed it raises and returns no value.
C22_Attempts == CallsTo("llm_client", "create")
C22_Failed(c) == ~c.ok \/ c.ret = NoneV \/ c.ret.s \in {"", " \n"}
C22_GenerateRetries ==
    op = "generate" =>
        /\ Len(C22_Attempts) <= args.retries
        /\ \A i \in 1..(Len(C22_Attempts) - 1) : C22_Failed(C22_Attempts[i])
        /\ pc = "done" =>
             \/ /\ result.kind = "return"
                /\ C22_Attempts # <<>>
                /\ ~C22_Failed(C22_Attempts[Len(C22_Attempts)])
                /\ result.value \in {"ok", "fine"}
                /\ result.value = Strip(C22_Attempts[Len(C22_Attempts)].ret.s)
             \/ /\ result.kind = "raise"
                /\ Len(C22_Attempts) = args.retries
                /\ \A i \in 1..Len(C22_Attempts) : C22_Failed(C22_Attempts[i])
C22_Witness ==
    /\ op = "generate" /\ pc = "done" /\ result.kind = "return"
    /\ Len(C22_Attempts) = 3
    /\ ~C22_Attempts[1].ok
    /\ C22_Attempts[2].ok /\ C22_Attempts[2].ret = Str(" \n")
    /\ result.value = "ok"


\* C23: in any sequence of create_index and delete_index calls on an index
\* manager, create_index sends its create request only when the index is
\* absent and delete_index its delete request only when the index is
\* present; after create_index returns the index exists and after
\* delete_index returns it does not; a call that repeats the call before it
\* sends no request and changes nothing.
C23_CreateDeleteIdempotent ==
    op = "index_manager" =>
        LET h == locals.history
        IN /\ \A i \in 1..Len(h) :
                /\ h[i].sent => (h[i].before = (h[i].method = "delete_index"))
                /\ h[i].returned => (h[i].after = (h[i].method = "create_index"))
           /\ \A i \in 1..(Len(h) - 1) :
                (h[i].returned /\ h[i + 1].method = h[i].method /\ h[i + 1].returned)
                    => (~h[i + 1].sent /\ h[i + 1].after = h[i].after)
           /\ \A i \in 1..Len(log) :
                /\ log[i].method = "create_index" => ~log[i].arg
                /\ log[i].method = "delete_index" => log[i].arg
C23_Witness ==
    /\ op = "index_manager"
    /\ Len(locals.history) = 3
    /\ locals.history[1].method = "create_index" /\ locals.history[1].sent
    /\ locals.history[1].returned
    /\ locals.history[2].method = "create_index" /\ locals.history[2].returned
    /\ locals.history[3].method = "delete_index" /\ locals.history[3].sent
    /\ locals.history[3].returned


(***************************************************************************)
(* TokenTracker used by several threads (src/rag/utils/tokens_utils.py     *)
(* lines 14-155).  Every thread makes calls one after the other; a call    *)
(* runs one statement part at a time, so that calls of different threads   *)
(* interleave wherever the lock lets them.  The state is held in locals:    *)
(*   lock      0 when self._lock is free, else the thread that holds it    *)
(*   usage     self._usage                                                 *)
(*   by_stage  self._by_stage, a function on the stages it has a key for   *)
(*   th        for each thread: the call it is in (Idle when in none), the *)
(*             position ip in the steps of that call, the phase and the    *)
(*             value tmp of a += under way, the copy snap being built, the *)
(*             value ret and the name last of the call it finished last,   *)
(*             whether that call raised, the number n of calls finished    *)
(*   added     the amounts added since the last reset, summed as each add  *)
(*             is issued: what usage and by_stage are expected to hold     *)
(*   calls     the number of calls issued                                  *)
(*   last      the call that returned last, "" once another call is issued *)
(***************************************************************************)
Threads == {1, 2}
Stages == {"embedding", "generation"}
\* lines 14-20: TokenUsage()
ZeroUsage ==
    [prompt_tokens |-> 0, completion_tokens |-> 0, embedding_tokens |-> 0,
     total_tokens |-> 0]
Fields == <<"prompt_tokens", "completion_tokens", "embedding_tokens", "total_tokens">>
Idle == [name |-> "idle"]
NoSnap == [none |-> TRUE]
\* the calls a thread can make; tokens is sum(count_tokens(text) for text in
\* texts) of line 49
TrackerCalls ==
    {[name |-> "add_embedding_usage", tokens |-> n, stage |-> "embedding"] : n \in {1, 2}}
      \cup {[name |-> "add_llm_usage", prompt_tokens |-> 2, completion_tokens |-> 1,
             stage |-> s] : s \in Stages}
      \cup {[name |-> "get_usage"], [name |-> "reset"], [name |-> "report"]}
      \cup {[name |-> "get_stage_usage", stage |-> s] : s \in Stages}

Inc(obj, f, n) == [k |-> "inc", obj |-> obj, f |-> f, n |-> n]
Read(obj) == [j \in 1..Len(Fields) |-> [k |-> "read", obj |-> obj, f |-> Fields[j]]]
\* an add_llm_usage that leaves the completion tokens out of the totals
LlmTotalPromptOnly(prompt_tokens, completion_tokens) == prompt_tokens
\* lines 63 and 68: prompt_tokens + completion_tokens
LlmTotal(prompt_tokens, completion_tokens) == prompt_tokens + completion_tokens
\* the steps of a call between taking the lock and leaving the with block
Program(c) ==
    CASE c.name = "add_embedding_usage" ->
           <<Inc("usage", "embedding_tokens", c.tokens),
             Inc("usage", "total_tokens", c.tokens),
             [k |-> "ensure"],
             Inc("stage", "embedding_tokens", c.tokens),
             Inc("stage", "total_tokens", c.tokens)>>
      [] c.name = "add_llm_usage" ->
           <<Inc("usage", "prompt_tokens", c.prompt_tokens),
             Inc("usage", "completion_tokens", c.completion_tokens),
             Inc("usage", "total_tokens", LlmTotal(c.prompt_tokens, c.completion_tokens)),
             [k |-> "ensure"],
             Inc("stage", "prompt_tokens", c.prompt_tokens),
             Inc("stage", "completion_tokens", c.completion_tokens),
             Inc("stage", "total_tokens", LlmTotal(c.prompt_tokens, c.completion_tokens))>>
      [] c.name = "get_usage" -> Read("usage")
      [] c.name = "get_stage_usage" -> <<[k |-> "get"]>> \o Read("stage")
      [] c.name = "reset" -> <<[k |-> "new_usage"], [k |-> "new_by_stage"]>>
      \* lines 115-155: estimate_cost() takes the lock again (line 102)
      [] c.name = "report" ->
           <<[k |-> "acquire"], [k |-> "costs"], [k |-> "release"], [k |-> "lines"]>>

\* a lock that excludes nobody
LockIgnored(lock) == TRUE
\* threading.Lock: acquire goes on only when no thread holds the lock
LockFree(lock) == lock = 0

\* what usage and by_stage are expected to hold once call c is done
Expect(added, c) ==
    LET plus(u, p, q, e) ==
            [prompt_tokens |-> u.prompt_tokens + p,
             completion_tokens |-> u.completion_tokens + q,
             embedding_tokens |-> u.embedding_tokens + e,
             total_tokens |-> u.total_tokens + p + q + e]
        at(s) == IF s \in DOMAIN added.by_stage THEN added.by_stage[s] ELSE ZeroUsage
        both(p, q, e) ==
            [usage |-> plus(added.usage, p, q, e),
             by_stage |-> [s \in DOMAIN added.by_stage \cup {c.stage} |->
                             IF s = c.stage THEN plus(at(s), p, q, e) ELSE at(s)]]
    IN CASE c.name = "add_embedding_usage" -> both(0, 0, c.tokens)
         [] c.name = "add_llm_usage" -> both(c.prompt_tokens, c.completion_tokens, 0)
         [] c.name = "reset" -> [usage |-> ZeroUsage, by_stage |-> <<>>]
         [] OTHER -> added

TrackerInitLocals ==
    [lock |-> 0, usage |-> ZeroUsage, by_stage |-> <<>>,
     th |-> [t \in Threads |->
               [call |-> Idle, ip |-> 1, phase |-> "load", tmp |-> 0, snap |-> NoSnap,
                ret |-> NoSnap, last |-> "", raised |-> FALSE, n |-> 0]],
     added |-> [usage |-> ZeroUsage, by_stage |-> <<>>], calls |-> 0, last |-> ""]

\* a thread enters a call: `with self._lock` (lines 50, 60, 72, 77, 88, 115)
TrackerBegin ==
    /\ op = "tracker"
    /\ locals.calls < MaxCalls
    /\ \E t \in Threads, c \in TrackerCalls :
         /\ locals.th[t].call = Idle
         /\ LockFree(locals.lock)
         /\ locals' = [locals EXCEPT
                         !.lock = t,
                         !.th[t] = [@ EXCEPT !.call = c, !.ip = 1, !.phase = "load",
                                             !.snap = NoSnap, !.ret = NoSnap,
                                             !.raised = FALSE],
                         !.added = Expect(@, c),
                         !.calls = @ + 1,
                         !.last = ""]
    /\ UNCHANGED <<op, pc, args, log, result, engineVars>>

\* the value of field f of the object a step works on
Load(t, i) ==
    IF i.obj = "usage" THEN locals.usage[i.f]
    ELSE locals.by_stage[locals.th[t].call.stage][i.f]
\* the call of thread t ends with an exception; the with block frees the lock
Abort(t) ==
    [locals EXCEPT !.lock = 0,
                   !.th[t] = [@ EXCEPT !.last = @.call.name, !.call = Idle,
                                       !.raised = TRUE, !.n = @ + 1],
                   !.last = locals.th[t].call.name]
\* a thread runs the next step of its call
TrackerStep ==
    /\ op = "tracker"
    /\ \E t \in Threads :
         LET me == locals.th[t]
             c == me.call
             i == Program(c)[me.ip]
             next == [locals EXCEPT !.th[t].ip = @ + 1, !.th[t].phase = "load"]
         IN /\ c # Idle
            /\ me.ip <= Len(Program(c))
            /\ CASE i.k = "inc" /\ i.obj = "stage" /\ c.stage \notin DOMAIN locals.by_stage ->
                      locals' = Abort(t)
                 [] i.k = "inc" /\ me.phase = "load" ->
                      locals' = [locals EXCEPT !.th[t].tmp = Load(t, i),
                                               !.th[t].phase = "store"]
                 [] i.k = "inc" /\ me.phase = "store" /\ i.obj = "usage" ->
                      locals' = [next EXCEPT !.usage[i.f] = me.tmp + i.n]
                 [] i.k = "inc" /\ me.phase = "store" /\ i.obj = "stage" ->
                      locals' = [next EXCEPT !.by_stage[c.stage][i.f] = me.tmp + i.n]
                 [] i.k = "ensure" ->
                      locals' = IF c.stage \in DOMAIN locals.by_stage THEN next
                                ELSE [next EXCEPT !.by_stage =
                                        [s \in DOMAIN locals.by_stage \cup {c.stage} |->
                                           IF s = c.stage THEN ZeroUsage
                                           ELSE locals.by_stage[s]]]
                 [] i.k = "get" ->
                      \* line 79: None when the stage has no record
                      locals' = IF c.stage \in DOMAIN locals.by_stage THEN next
                                ELSE [next EXCEPT !.th[t].ip = Len(Program(c)) + 1]
                 [] i.k = "read" /\ i.obj = "stage" /\ c.stage \notin DOMAIN locals.by_stage ->
                      locals' = Abort(t)
                 [] i.k = "read" ->
                      locals' = [next EXCEPT !.th[t].snap =
                                   [f \in {Fields[j] : j \in 1..Len(Fields)} |->
                                      IF f = i.f THEN Load(t, i)
                                      ELSE IF me.snap = NoSnap THEN 0 ELSE me.snap[f]]]
                 [] i.k = "new_usage" -> locals' = [next EXCEPT !.usage = ZeroUsage]
                 [] i.k = "new_by_stage" -> locals' = [next EXCEPT !.by_stage = <<>>]
                 [] i.k = "acquire" -> LockFree(locals.lock) /\ locals' = next
                 [] i.k = "release" -> locals' = [next EXCEPT !.lock = 0]
                 [] OTHER -> locals' = next
    /\ UNCHANGED <<op, pc, args, log, result, engineVars>>

\* a thread leaves the with block of its call and returns
TrackerReturn ==
    /\ op = "tracker"
    /\ \E t \in Threads :
         LET me == locals.th[t]
         IN /\ me.call # Idle
            /\ me.ip > Len(Program(me.call))
            /\ locals' = [locals EXCEPT
                            !.lock = 0,
                            !.th[t] = [@ EXCEPT !.ret = me.snap, !.last = me.call.name,
                                                !.call = Idle, !.n = @ + 1],
                            !.last = me.call.name]
    /\ UNCHANGED <<op, pc, args, log, result, engineVars>>

TrackerInit ==
    /\ op = "tracker"
    /\ pc = "run"
    /\ args = <<>>
    /\ log = <<>>
    /\ locals = TrackerInitLocals
    /\ result = NoResult
    /\ plan = <<>>
    /\ idx = 1
    /\ state = <<>>
    /\ mcp_input = <<>>
    /\ mcp_output = NoOutcome
    /\ invoked = <<>>
    /\ llm = NoLlm
TrackerNext == TrackerBegin \/ TrackerStep \/ TrackerReturn
TrackerSpec == TrackerInit /\ [][TrackerNext]_vars

AllIdle == \A t \in Threads : locals.th[t].call = Idle
Consistent(u) ==
    u.total_tokens = u.prompt_tokens + u.completion_tokens + u.embedding_tokens

\* C24: with several threads calling add_embedding_usage, add_llm_usage and
\* the snapshot readers on one tracker, no update is lost and no snapshot is
\* torn: once all calls have returned the running totals and the counters of
\* every stage are the sums of the amounts added, and every snapshot that
\* get_usage returned satisfies total = prompt + completion + embedding.
C24_NoLostUpdateNoTornSnapshot ==
    op = "tracker" =>
        /\ AllIdle => /\ locals.usage = locals.added.usage
                      /\ locals.by_stage = locals.added.by_stage
        /\ \A t \in Threads :
             (locals.th[t].last = "get_usage" /\ locals.th[t].call = Idle)
                 => /\ locals.th[t].ret # NoSnap
                    /\ Consistent(locals.th[t].ret)
C24_Witness ==
    /\ op = "tracker" /\ AllIdle
    /\ locals.calls = 3
    /\ locals.th[1].n = 2 /\ locals.th[2].n = 1
    /\ locals.th[1].last = "get_usage"
    /\ locals.th[1].ret.embedding_tokens = 2 /\ locals.th[1].ret.prompt_tokens = 2
    /\ locals.th[2].last = "add_llm_usage"


\* C25: report() terminates and leaves the lock free: a thread inside report
\* is never left waiting for the tracker's lock while it holds that lock
\* itself, a wait that nothing can end.
C25_ReportNeverWaitsForItsOwnLock ==
    op = "tracker" =>
        \A t \in Threads :
            LET me == locals.th[t]
            IN ~(/\ me.call # Idle
                 /\ me.call.name = "report"
                 /\ me.ip <= Len(Program(me.call))
                 /\ Program(me.call)[me.ip].k = "acquire"
                 /\ locals.lock = t)

RECURSIVE SumOver(_, _, _)
SumOver(by_stage, stages, f) ==
    IF stages = {} THEN 0
    ELSE LET s == CHOOSE x \in stages : TRUE
         IN by_stage[s][f] + SumOver(by_stage, stages \ {s}, f)
\* C29: after any sequence of add_embedding_usage, add_llm_usage and reset
\* calls, total_tokens = prompt_tokens + completion_tokens + embedding_tokens
\* holds for the running total and for every stage record, and each field of
\* the running total is the sum of that field over the stage records;
\* directly after reset every counter is 0 and there is no stage record.
C29_TotalsAgree ==
    (op = "tracker" /\ AllIdle) =>
        /\ Consistent(locals.usage)
        /\ \A s \in DOMAIN locals.by_stage : Consistent(locals.by_stage[s])
        /\ \A j \in 1..Len(Fields) :
             locals.usage[Fields[j]]
               = SumOver(locals.by_stage, DOMAIN locals.by_stage, Fields[j])
        /\ locals.last = "reset" => (locals.usage = ZeroUsage /\ locals.by_stage = <<>>)
C29_Witness ==
    /\ op = "tracker" /\ AllIdle
    /\ locals.usage.total_tokens = 5
    /\ locals.usage.embedding_tokens = 2
    /\ DOMAIN locals.by_stage = Stages
    /\ locals.by_stage["generation"].completion_tokens = 1


(***************************************************************************)
(* The loops of chunk_text and chunk_text_tiktoken, one iteration at a     *)
(* time (src/rag/utils/chunking_utils.py lines 48-73 and 119-157).         *)
(*   locals.start    start of chunk_text, i of chunk_text_tiktoken         *)
(*   locals.chunks   chunks                                                *)
(*   locals.windows  the slices taken so far, before they are trimmed      *)
(*   locals.iters    the number of iterations made                         *)
(* tiktoken is a library outside the repository: the text given to         *)
(* chunk_text_tiktoken is modelled by its tokens, each token by the text   *)
(* it decodes to.                                                          *)
(***************************************************************************)
Max(a, b) == IF a > b THEN a ELSE b
\* s[a:b] of Python, for a text (empty is "") or a list (empty is <<>>)
PySlice(s, a, b, empty) ==
    LET n == Len(s)
        norm(x) == IF x < 0 THEN Max(x + n, 0) ELSE Min(x, n)
    IN IF norm(b) <= norm(a) THEN empty ELSE SubSeq(s, norm(a) + 1, norm(b))
\* line 57
WindowEnd(start, max_chars, n) == Min(start + max_chars, n)
\* a next start that leaves no overlap
NextStartNoOverlap(end, overlap) == end
\* a next start one position further back
NextStartBack(end, overlap) == end - overlap - 1
\* line 71
NextStart(end, overlap) == end - overlap
\* line 141
TokenStep(chunk_size, overlap) == Max(1, chunk_size - overlap)
\* the positions <<start, end>> of the slices chunk_text takes of a text of
\* length n, from position start on
RECURSIVE WindowsFrom(_, _, _, _)
WindowsFrom(n, start, max_chars, overlap) ==
    LET end == WindowEnd(start, max_chars, n)
    IN IF start >= n THEN <<>>
       ELSE IF end >= n THEN <<(<<start, end>>)>>
       ELSE <<(<<start, end>>)>> \o WindowsFrom(n, NextStart(end, overlap), max_chars, overlap)
\* str.replace("\n", " ")
RECURSIVE ReplaceNewlines(_)
ReplaceNewlines(s) ==
    IF s = "" THEN ""
    ELSE (IF SubSeq(s, 1, 1) = "\n" THEN " " ELSE SubSeq(s, 1, 1))
           \o ReplaceNewlines(SubSeq(s, 2, Len(s)))
\* tokenizer.decode
RECURSIVE Decode(_)
Decode(tokens) == IF tokens = <<>> THEN "" ELSE Head(tokens) \o Decode(Tail(tokens))

ChunkLocals == [start |-> 0, chunks |-> <<>>, windows |-> <<>>, iters |-> 0]
\* lines 48-53 and 119-141
ChunkEnter ==
    /\ op \in {"chunk_text", "chunk_text_tiktoken"} /\ pc = "enter"
    /\ IF (op = "chunk_text" /\ args.text = "")
          \/ (op = "chunk_text_tiktoken" /\ args.tokens = <<>>)
       THEN /\ result' = Returned(<<>>)
            /\ pc' = "done"
       ELSE /\ result' = result
            /\ pc' = "loop"
    /\ UNCHANGED <<op, args, log, locals, engineVars>>

\* lines 55-73: one iteration of the while loop, or its end
ChunkTextLoop ==
    /\ op = "chunk_text" /\ pc = "loop"
    /\ LET n == Len(args.text)
           start == locals.start
           end == WindowEnd(start, args.max_chars, n)
           window == PySlice(args.text, start, end, "")
           chunk == Strip(window)
           chunks == IF chunk # "" THEN Append(locals.chunks, chunk) ELSE locals.chunks
       IN IF start >= n
          THEN /\ result' = Returned(locals.chunks)
               /\ pc' = "done"
               /\ locals' = locals
          ELSE /\ locals' = [start |-> IF end >= n THEN start
                                      ELSE NextStart(end, args.overlap),
                             chunks |-> chunks,
                             windows |-> Append(locals.windows, window),
                             iters |-> locals.iters + 1]
               /\ IF end >= n
                  THEN result' = Returned(chunks) /\ pc' = "done"
                  ELSE UNCHANGED <<result, pc>>
    /\ UNCHANGED <<op, args, log, engineVars>>

\* lines 144-157: one iteration of the for loop, or its end
ChunkTokensLoop ==
    /\ op = "chunk_text_tiktoken" /\ pc = "loop"
    /\ LET i == locals.start
           window == PySlice(args.tokens, i, i + args.chunk_size, <<>>)
           chunk_text == Strip(ReplaceNewlines(Decode(window)))
       IN IF i >= Len(args.tokens)
          THEN /\ result' = Returned(locals.chunks)
               /\ pc' = "done"
               /\ locals' = locals
          ELSE /\ locals' = [start |-> i + TokenStep(args.chunk_size, args.overlap),
                             chunks |-> IF chunk_text # ""
                                        THEN Append(locals.chunks, chunk_text)
                                        ELSE locals.chunks,
                             windows |-> Append(locals.windows, window),
                             iters |-> locals.iters + 1]
               /\ UNCHANGED <<result, pc>>
    /\ UNCHANGED <<op, args, log, engineVars>>

\* texts with and without whitespace, and chunk sizes and overlaps around
\* them, the overlap smaller than the chunk size
ChunkSizes == {-1, 1, 2, 3}
Overlaps == {-2, 0, 1, 2}
ChunkTextArgs ==
    {a \in [text : {"", "  ", "ab", "abcdefg", "ab cd\nef"}, max_chars : ChunkSizes,
            overlap : Overlaps] : a.overlap < a.max_chars}
ChunkTokensArgs ==
    {a \in [tokens : {<<>>, <<"ab", " ", "\n", "cd", "e">>, <<"a", "b", "c">>},
            chunk_size : ChunkSizes, overlap : Overlaps] : a.overlap < a.chunk_size}
ChunkInit ==
    /\ op \in {"chunk_text", "chunk_text_tiktoken"}
    /\ pc = "enter"
    /\ args \in (IF op = "chunk_text" THEN ChunkTextArgs ELSE ChunkTokensArgs)
    /\ log = <<>>
    /\ locals = ChunkLocals
    /\ result = NoResult
    /\ plan = <<>>
    /\ idx = 1
    /\ state = <<>>
    /\ mcp_input = <<>>
    /\ mcp_output = NoOutcome
    /\ invoked = <<>>
    /\ llm = NoLlm
ChunkNext == ChunkEnter \/ ChunkTextLoop \/ ChunkTokensLoop
\* the interpreter runs a loop that can go on
ChunkSpec == ChunkInit /\ [][ChunkNext]_vars /\ WF_vars(ChunkNext)

\* C26: for a text of length n > max_chars and 0 <= overlap < max_chars the
\* slices chunk_text takes (before trimming) are such that the last overlap
\* characters of a slice are the first overlap characters of the next one,
\* every slice but the last has max_chars characters, and there are
\* ceil((n - overlap) / (max_chars - overlap)) slices; for n = 10000,
\* max_chars = 4000, overlap = 200 these are 3 slices, the first of 4000
\* characters.
C26_Case ==
    /\ op = "chunk_text" /\ pc = "done"
    /\ Len(args.text) > args.max_chars
    /\ 0 <= args.overlap /\ args.overlap < args.max_chars
C26_Ceil(a, b) == (a + b - 1) \div b
C26_WindowsOverlap ==
    /\ C26_Case =>
         LET w == locals.windows
             n == Len(args.text)
             positions == WindowsFrom(n, 0, args.max_chars, args.overlap)
         IN /\ Len(w) = C26_Ceil(n - args.overlap, args.max_chars - args.overlap)
            /\ \A i \in 1..(Len(w) - 1) :
                 /\ Len(w[i]) = args.max_chars
                 /\ Len(w[i + 1]) >= args.overlap
                 /\ \A j \in 1..args.overlap :
                      SubSeq(w[i], Len(w[i]) - args.overlap + j, Len(w[i]) - args.overlap + j)
                        = SubSeq(w[i + 1], j, j)
            /\ Len(positions) = Len(w)
            /\ \A i \in 1..Len(w) :
                 w[i] = SubSeq(args.text, positions[i][1] + 1, positions[i][2])
            /\ result.kind = "return"
            /\ result.value = ChunkFrom(args.text, 0, args.max_chars, args.overlap)
    /\ LET example == WindowsFrom(10000, 0, 4000, 200)
       IN /\ Len(example) = 3
          /\ example[1][2] - example[1][1] = 4000
          /\ C26_Ceil(10000 - 200, 4000 - 200) = 3
C26_Witness ==
    /\ C26_Case
    /\ args.text = "abcdefg" /\ args.max_chars = 3 /\ args.overlap = 1
    /\ locals.windows = <<"abc", "cde", "efg">>

\* C28: chunk_text and chunk_text_tiktoken terminate on every text when the
\* overlap is smaller than the chunk size: every iteration moves the start
\* of the window strictly forward, the number of iterations never exceeds
\* the length of the text (of its token list for chunk_text_tiktoken), and
\* the call ends.
C28_Length == IF op = "chunk_text" THEN Len(args.text) ELSE Len(args.tokens)
C28_ChunkingTerminates ==
    /\ [](locals.iters <= C28_Length)
    /\ [][(pc = "loop" /\ pc' = "loop") => locals'.start > locals.start]_vars
    /\ <>(pc = "done" /\ result.kind = "return")
C28_Witness ==
    /\ pc = "done" /\ result.kind = "return"
    /\ locals.iters >= 3
    /\ op = "chunk_text_tiktoken"
    /\ args.chunk_size = 3 /\ args.overlap = 2


\* C27: the Researcher hands the generator only chunks that sanitize_input
\* accepts, and when the search returns no chunk or only chunks that are
\* rejected it calls the generator not at all and returns a response whose
\* status is error.
C27_Searched == CallsTo("searcher", "search")
C27_Generated == CallsTo("generator", "generate")
C27_OnlyAcceptedChunksElseError ==
    (op = "researcher" /\ pc = "done" /\ C27_Searched[1].ok) =>
        LET results == C27_Searched[1].ret
            usable == {j \in 1..Len(results) : ~SanitizeRejects(results[j].chunk)}
        IN /\ \A i \in 1..Len(C27_Generated) :
                \A j \in 1..Len(results) :
                    Contains(C27_Generated[i].arg.context, results[j].chunk)
                        => j \in usable
           /\ usable = {} =>
                /\ C27_Generated = <<>>
                /\ result.kind = "return"
                /\ "status" \in DOMAIN result.value
                /\ result.value.status = "error"


\* C30: one call of embed(texts) on an embedder with a token tracker adds
\* the token count of texts to the tracker's embedding total exactly once,
\* however many attempts the call makes before it succeeds or gives up; a
\* call with an empty list adds nothing and makes no network call.
C30_TrackedOncePerCall ==
    (op = "embed" /\ pc = "done") =>
        /\ (args.token_tracker /\ args.texts # <<>>) =>
             /\ Len(CallsTo("token_tracker", "add_embedding_usage")) = 1
             /\ locals.embedding_tokens = 3
        /\ args.texts = <<>> => (log = <<>> /\ locals.embedding_tokens = 0)
====
